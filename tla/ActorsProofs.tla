---------------------------- MODULE ActorsProofs ----------------------------
(***************************************************************************)
(* What TLAPS proves of Scheduler, for any number of processes, messages,  *)
(* waits and instants, and of Actors, for any programs of tasks, servers   *)
(* and supervisors that also send and receive whatever they like.          *)
(*                                                                         *)
(* The lemmas of the first part say what a launch, a delivery, an exit, a  *)
(* block and a wait do to the scheduler; each action of Scheduler, and     *)
(* each of Actors, is one or two of these.  On top of that, in the second  *)
(* part, an invariant follows each request, each task's result and each    *)
(* child from where it is made to where it ends.                           *)
(***************************************************************************)
EXTENDS Actors, TLAPS

USE DEF Pid, NoProc, Never, Time

(*********************** The scheduler by itself **************************)

(***************************************************************************)
(* Queues: what Append and Tail do to occurrence and repetition.           *)
(***************************************************************************)

\* The occurrences of Append(q, e) are those of q, and e.
LEMMA AppendOccurs ==
  ASSUME NEW S, NEW q \in Seq(S), NEW e \in S, NEW p
  PROVE  Occurs(p, Append(q, e)) <=> Occurs(p, q) \/ p = e
<1>1. /\ DOMAIN q = 1 .. Len(q)
      /\ DOMAIN Append(q, e) = 1 .. (Len(q) + 1)
      /\ Len(q) \in Nat
  OBVIOUS
<1>2. \A i \in 1 .. Len(q) : Append(q, e)[i] = q[i]
  OBVIOUS
<1>3. Append(q, e)[Len(q) + 1] = e
  OBVIOUS
<1>4. ASSUME Occurs(p, Append(q, e)) PROVE Occurs(p, q) \/ p = e
  <2>1. PICK i \in 1 .. (Len(q) + 1) : Append(q, e)[i] = p
    BY <1>1, <1>4 DEF Occurs
  <2>2. CASE i = Len(q) + 1
    BY <2>1, <2>2, <1>3
  <2>3. CASE i \in 1 .. Len(q)
    BY <2>1, <2>3, <1>1, <1>2 DEF Occurs
  <2> QED BY <2>1, <2>2, <2>3, <1>1
<1>5. ASSUME Occurs(p, q) PROVE Occurs(p, Append(q, e))
  <2>1. PICK i \in 1 .. Len(q) : q[i] = p
    BY <1>1, <1>5 DEF Occurs
  <2> QED BY <2>1, <1>1, <1>2 DEF Occurs
<1>6. Occurs(e, Append(q, e))
  BY <1>1, <1>3 DEF Occurs
<1> QED BY <1>4, <1>5, <1>6

\* Appending an element that is not there repeats nothing.
LEMMA AppendNoRepeat ==
  ASSUME NEW S, NEW q \in Seq(S), NEW e \in S, NoRepeat(q), ~Occurs(e, q)
  PROVE  NoRepeat(Append(q, e))
<1>1. /\ DOMAIN q = 1 .. Len(q)
      /\ DOMAIN Append(q, e) = 1 .. (Len(q) + 1)
      /\ Len(q) \in Nat
  OBVIOUS
<1>2. \A i \in 1 .. Len(q) : Append(q, e)[i] = q[i]
  OBVIOUS
<1>3. Append(q, e)[Len(q) + 1] = e
  OBVIOUS
<1>4. \A i \in 1 .. Len(q) : q[i] # e
  BY <1>1 DEF Occurs
<1> QED BY <1>1, <1>2, <1>3, <1>4 DEF NoRepeat

\* Taking the head of a queue without repetitions removes it, and only it.
LEMMA TailOccurs ==
  ASSUME NEW S, NEW q \in Seq(S), q # <<>>, NoRepeat(q), NEW p
  PROVE  /\ Tail(q) \in Seq(S)
         /\ Head(q) \in S
         /\ Occurs(Head(q), q)
         /\ NoRepeat(Tail(q))
         /\ Occurs(p, Tail(q)) <=> Occurs(p, q) /\ p # Head(q)
<1>1. Tail(q) \in Seq(S) /\ Head(q) \in S /\ Len(Tail(q)) = Len(q) - 1
  OBVIOUS
<1>2. \A i \in 1 .. (Len(q) - 1) : Tail(q)[i] = q[i + 1]
  OBVIOUS
<1>3. Occurs(Head(q), q)
  BY DEF Occurs
<1>4. NoRepeat(Tail(q))
  BY <1>1, <1>2 DEF NoRepeat
<1>5. ASSUME Occurs(p, Tail(q)) PROVE Occurs(p, q) /\ p # Head(q)
  BY <1>1, <1>2, <1>5 DEF NoRepeat, Occurs
<1>6. ASSUME Occurs(p, q), p # Head(q) PROVE Occurs(p, Tail(q))
  <2>1. PICK i \in DOMAIN q : q[i] = p
    BY <1>6 DEF Occurs
  <2>2. i - 1 \in 1 .. (Len(q) - 1) /\ Tail(q)[i - 1] = p
    BY <2>1, <1>2, <1>6
  <2> QED BY <2>2, <1>1 DEF Occurs
<1> QED BY <1>1, <1>3, <1>4, <1>5, <1>6

(***************************************************************************)
(* Type correctness.                                                       *)
(***************************************************************************)

\* Blocking for the first time leaves a wait a wait.
LEMMA ParkedIsWait == \A w \in Wait : [w EXCEPT !.parked = TRUE] \in Wait
BY DEF Wait

\* A message delivered, or not, leaves mailboxes and the queue well typed.
LEMMA DeliverTyped ==
  ASSUME TypeOK, NEW q, NEW m \in Message, Deliver(q, m)
  PROVE  /\ mailbox' \in [Pid -> Seq(Message)]
         /\ blocked' \in [Pid -> BOOLEAN]
         /\ ready' \in Seq(Pid)
<1> USE SchedulerAssumption DEF TypeOK
<1>1. CASE Alive(q)
  <2>1. q \in Pid
    BY <1>1 DEF Alive, Exists
  <2>2. /\ mailbox' = [mailbox EXCEPT ![q] = Append(mailbox[q], m)]
        /\ blocked' = [blocked EXCEPT ![q] = FALSE]
        /\ ready' = IF blocked[q] THEN Append(ready, q) ELSE ready
    BY <1>1 DEF Deliver
  <2>3. Append(mailbox[q], m) \in Seq(Message) /\ Append(ready, q) \in Seq(Pid)
    BY <2>1
  <2> QED BY <2>1, <2>2, <2>3
<1>2. CASE ~Alive(q)
  BY <1>2 DEF Deliver
<1> QED BY <1>1, <1>2

\* A wait that begins is a wait.
LEMMA BeginWaitTyped ==
  ASSUME TypeOK, NEW p \in Pid, NEW kind \in WaitKinds, NEW want \in SUBSET Message,
         NEW d \in Delays \cup {Never}, BeginWait(p, kind, want, d)
  PROVE  /\ wait' \in [Pid -> Wait]
         /\ generation' \in [Pid -> 0 .. MaxWaits]
<1> USE SchedulerAssumption DEF TypeOK
<1>1. wait' \in [Pid -> Wait]
  <2>1. (IF d = Never THEN Never ELSE now + d) \in Time \cup {Never}
    BY DEF BeginWait
  <2>2. [kind |-> kind, want |-> want, parked |-> FALSE,
         deadline |-> IF d = Never THEN Never ELSE now + d] \in Wait
    BY <2>1 DEF Wait
  <2>3. wait' = [wait EXCEPT ![p] =
          [kind |-> kind, want |-> want, parked |-> FALSE,
           deadline |-> IF d = Never THEN Never ELSE now + d]]
    BY DEF BeginWait
  <2>4. PICK w \in Wait : wait' = [wait EXCEPT ![p] = w]
    BY <2>2, <2>3, Zenon
  <2> QED BY <2>4
<1>2. generation' \in [Pid -> 0 .. MaxWaits]
  <2>1. generation' = [generation EXCEPT ![p] = generation[p] + 1] /\ generation[p] < MaxWaits
    BY DEF BeginWait
  <2>2. generation[p] + 1 \in 0 .. MaxWaits
    BY <2>1
  <2> QED BY <2>1, <2>2
<1> QED BY <1>1, <1>2

LEMMA InitTypeOK == Init => TypeOK
BY SchedulerAssumption
   DEF Init, TypeOK, Body, Wait, WaitKinds, Report

\* One step per action: the conjuncts it changes keep their type.
LEMMA NextTypeOK == TypeOK /\ [Next]_vars => TypeOK'
<1> SUFFICES ASSUME TypeOK, [Next]_vars PROVE TypeOK'
  OBVIOUS
<1> USE SchedulerAssumption DEF TypeOK, procVars, waitVars, queueVars, driveVars
<1>1. CASE StartLine
  BY <1>1 DEF StartLine, Launch, Body, Wait, WaitKinds, Report
<1>2. CASE EndLine
  BY <1>2 DEF EndLine, Report
<1>3. CASE FireTimeout
  <2>1. PICK t \in timers :
          /\ timers' = timers \ {t}
          /\ IF Live(t)
             THEN /\ blocked' = [blocked EXCEPT ![t.pid] = FALSE]
                  /\ woke' = [woke EXCEPT ![t.pid] = TRUE]
                  /\ ready' = Append(ready, t.pid)
             ELSE UNCHANGED <<blocked, woke, ready>>
    BY <1>3 DEF FireTimeout, Expired
  <2>2. t.pid \in Pid
    BY <2>1 DEF Timer
  <2>3. blocked' \in [Pid -> BOOLEAN] /\ woke' \in [Pid -> BOOLEAN] /\ ready' \in Seq(Pid)
    <3>1. CASE Live(t)
      <4>1. blocked' = [blocked EXCEPT ![t.pid] = FALSE]
            /\ woke' = [woke EXCEPT ![t.pid] = TRUE] /\ ready' = Append(ready, t.pid)
        BY <2>1, <3>1
      <4> QED BY <4>1, <2>2
    <3>2. CASE ~Live(t)
      BY <2>1, <3>2
    <3> QED BY <3>1, <3>2
  <2> QED BY <1>3, <2>1, <2>3 DEF FireTimeout
<1>4. CASE Resume
  <2>1. ready' \in Seq(Pid) /\ Head(ready) \in Pid
    BY <1>4 DEF Resume
  <2> QED BY <1>4, <2>1 DEF Resume
<1>5. CASE SleepUntil
  BY <1>5 DEF SleepUntil, Timer
<1>6. CASE ReportStuck
  BY <1>6 DEF ReportStuck, Report
<1>7. CASE Advance
  BY <1>7 DEF Advance
<1>8. CASE SessionOver
  BY <1>8 DEF SessionOver, vars
<1>9. ASSUME NEW p \in Pid, ScanHit(p) PROVE TypeOK'
  <2>1. \A s \in Seq(Message) : \A i \in DOMAIN s : RemoveAt(s, i) \in Seq(Message)
    BY DEF RemoveAt
  <2>2. mailbox' \in [Pid -> Seq(Message)]
    BY <1>9, <2>1 DEF ScanHit, Matching
  <2>3. wait' \in [Pid -> Wait]
    BY <1>9 DEF ScanHit, Body, Wait, WaitKinds
  <2> QED BY <1>9, <2>2, <2>3 DEF ScanHit
<1>10. ASSUME NEW p \in Pid, ScanMiss(p) PROVE TypeOK'
  <2>1. timers' \in SUBSET Timer
    BY <1>10 DEF ScanMiss, Arm, Timer, Wait
  <2>2. wait' \in [Pid -> Wait]
    <3>1. [wait[p] EXCEPT !.parked = TRUE] \in Wait
      BY ParkedIsWait
    <3>2. wait' = [wait EXCEPT ![p] = [wait[p] EXCEPT !.parked = TRUE]]
      BY <1>10 DEF ScanMiss
    <3> QED BY <3>1, <3>2
  <2> QED BY <1>10, <2>1, <2>2 DEF ScanMiss
<1>11. ASSUME NEW p \in Pid, ScanPreempt(p) PROVE TypeOK'
  BY <1>11 DEF ScanPreempt
<1>12. ASSUME NEW p \in Pid, TimeoutBranch(p) PROVE TypeOK'
  <2>1. wait' \in [Pid -> Wait]
    BY <1>12 DEF TimeoutBranch, Body, Wait, WaitKinds
  <2> QED BY <1>12, <2>1 DEF TimeoutBranch
<1>13. ASSUME NEW p \in Pid, Spawn(p) PROVE TypeOK'
  <2>1. wait' \in [Pid -> Wait]
    BY <1>13 DEF Spawn, Launch, Body, Wait, WaitKinds
  <2> QED BY <1>13, <2>1 DEF Spawn, Launch
<1>14. ASSUME NEW p \in Pid, NEW q \in Pid, NEW m \in Sent, Send(p, q, m) PROVE TypeOK'
  <2>1. m \in Message
    OBVIOUS
  <2>2. /\ mailbox' \in [Pid -> Seq(Message)] /\ blocked' \in [Pid -> BOOLEAN]
        /\ ready' \in Seq(Pid)
    BY <1>14, <2>1, DeliverTyped DEF Send
  <2> QED BY <1>14, <2>2 DEF Send
<1>15. ASSUME NEW p \in Pid, NEW want \in Wants, NEW d \in Delays \cup {Never},
              Receive(p, want, d)
       PROVE  TypeOK'
  <2>1. want \in SUBSET Message /\ "receive" \in WaitKinds
    BY DEF WaitKinds
  <2>2. wait' \in [Pid -> Wait] /\ generation' \in [Pid -> 0 .. MaxWaits]
    BY <1>15, <2>1, BeginWaitTyped DEF Receive
  <2>3. UNCHANGED <<procVars, mailbox, blocked, woke, queueVars, driveVars, names>>
    BY <1>15 DEF Receive
  <2> QED BY <2>2, <2>3
<1>16. ASSUME NEW p \in Pid, NEW q \in Pid, NEW n \in Names, RegisterName(p, q, n)
       PROVE  TypeOK'
  BY <1>16 DEF RegisterName
<1>17. ASSUME NEW p \in Pid, Preempt(p) PROVE TypeOK'
  BY <1>17 DEF Preempt
<1>18. ASSUME NEW p \in Pid, Finish(p) \/ Crash(p) PROVE TypeOK'
  BY <1>18 DEF Finish, Crash, Exit
<1>19. CASE UNCHANGED vars
  BY <1>19 DEF vars
<1> QED
  BY <1>1, <1>2, <1>3, <1>4, <1>5, <1>6, <1>7, <1>8, <1>9, <1>10, <1>11, <1>12,
     <1>13, <1>14, <1>15, <1>16, <1>17, <1>18, <1>19
     DEF Next, Drive, Scan, Operate

\* Every variable keeps its type.
THEOREM TypeCorrect == Spec => []TypeOK
BY InitTypeOK, NextTypeOK, PTL DEF Spec

(***************************************************************************)
(* One home: the ready queue, the running process and the blocked ones     *)
(* share the live processes out between them.                              *)
(***************************************************************************)
Home == TypeOK /\ Unborn /\ ReadyOnce /\ OneHome

\* AppendOccurs for a queue of processes.
LEMMA AppendPid ==
  ASSUME NEW q \in Seq(Pid), NEW x \in Pid
  PROVE  \A p : Occurs(p, Append(q, x)) <=> Occurs(p, q) \/ p = x
<1> HIDE DEF Pid
<1> QED BY AppendOccurs

\* Enqueueing a process that is not queued.
LEMMA Enqueue ==
  ASSUME TypeOK, ReadyOnce, NEW x \in Pid, ~Queued(x), ready' = Append(ready, x)
  PROVE  ReadyOnce' /\ \A p : Queued(p)' <=> Queued(p) \/ p = x
<1>1. ready \in Seq(Pid)
  BY DEF TypeOK
<1>2. ReadyOnce'
  BY <1>1, AppendNoRepeat DEF ReadyOnce, Queued
<1>3. ASSUME NEW p PROVE Queued(p)' <=> Queued(p) \/ p = x
  <2>1. Occurs(p, Append(ready, x)) <=> Occurs(p, ready) \/ p = x
    BY <1>1, AppendPid
  <2> QED BY <2>1 DEF Queued
<1> QED BY <1>2, <1>3

\* A step that leaves the queue alone.
LEMMA SameQueue ==
  ASSUME ready' = ready
  PROVE  (ReadyOnce <=> ReadyOnce') /\ \A p : Queued(p)' <=> Queued(p)
BY DEF ReadyOnce, Queued

\* A step that leaves all homes alone.
LEMMA SameHome ==
  ASSUME Home, UNCHANGED <<nextId, finished, ready, current, blocked>>
  PROVE  ReadyOnce' /\ OneHome'
<1>1. \A p : Alive(p)' <=> Alive(p)
  BY DEF Alive, Exists
<1>2. ReadyOnce' /\ \A p : Queued(p)' <=> Queued(p)
  BY SameQueue DEF Home
<1>3. OneHome'
  <2> SUFFICES ASSUME NEW p \in Pid
               PROVE  IF Alive(p)'
                      THEN \/ current' = p /\ ~Queued(p)' /\ ~blocked'[p]
                           \/ current' # p /\ Queued(p)' /\ ~blocked'[p]
                           \/ current' # p /\ ~Queued(p)' /\ blocked'[p]
                      ELSE current' # p /\ ~Queued(p)' /\ ~blocked'[p]
    BY DEF OneHome
  <2> QED BY <1>1, <1>2 DEF Home, OneHome
<1> QED BY <1>2, <1>3

\* A process is launched: it is queued, and was nowhere before.
LEMMA LaunchHome ==
  ASSUME Home, NEW w, Launch(w), current' = current, UNCHANGED <<finished, blocked>>
  PROVE  ReadyOnce' /\ OneHome'
<1> USE SchedulerAssumption DEF Home
<1>1. nextId \in Pid /\ nextId' = nextId + 1 /\ ready' = Append(ready, nextId)
  BY DEF Launch, TypeOK
<1>2. ~Alive(nextId) /\ ~finished[nextId]
  BY <1>1 DEF Alive, Exists, Unborn
<1>3. ~Queued(nextId) /\ ~blocked[nextId] /\ current # nextId
  BY <1>1, <1>2 DEF OneHome
<1>4. ReadyOnce' /\ \A p : Queued(p)' <=> Queued(p) \/ p = nextId
  BY <1>1, <1>3, Enqueue
<1>5. nextId \in Nat /\ finished' = finished /\ blocked' = blocked
  BY DEF TypeOK
<1>6. \A p \in Pid : Alive(p)' <=> Alive(p) \/ p = nextId
  <2> SUFFICES ASSUME NEW p \in Pid PROVE Alive(p)' <=> Alive(p) \/ p = nextId
    OBVIOUS
  <2>1. p \in 0 .. (nextId' - 1) <=> p \in 0 .. (nextId - 1) \/ p = nextId
    BY <1>1, <1>5
  <2> QED BY <2>1, <1>2, <1>5 DEF Alive, Exists
<1>7. OneHome'
  <2> SUFFICES ASSUME NEW p \in Pid
               PROVE  IF Alive(p)'
                      THEN \/ current' = p /\ ~Queued(p)' /\ ~blocked'[p]
                           \/ current' # p /\ Queued(p)' /\ ~blocked'[p]
                           \/ current' # p /\ ~Queued(p)' /\ blocked'[p]
                      ELSE current' # p /\ ~Queued(p)' /\ ~blocked'[p]
    BY DEF OneHome
  <2> QED BY <1>1, <1>3, <1>4, <1>5, <1>6 DEF OneHome
<1> QED BY <1>4, <1>7

\* The running process ends, if it does: it was neither queued nor blocked.
LEMMA ExitHome ==
  ASSUME Home, NEW x \in Pid, current = x, current' = NoProc,
         finished' = [finished EXCEPT ![x] = TRUE], UNCHANGED <<nextId, ready, blocked>>
  PROVE  ReadyOnce' /\ OneHome'
<1> USE DEF Home
<1>1. Alive(x) /\ ~Queued(x) /\ ~blocked[x]
  BY DEF OneHome
<1>2. \A q \in Pid : Alive(q)' <=> Alive(q) /\ q # x
  BY DEF Alive, Exists, TypeOK
<1>3. ReadyOnce' /\ \A q : (Queued(q)' <=> Queued(q))
  BY SameQueue
<1>4. OneHome'
  BY <1>1, <1>2, <1>3 DEF OneHome
<1> QED BY <1>3, <1>4

\* The running process blocks.
LEMMA BlockHome ==
  ASSUME Home, NEW x \in Pid, current = x, current' = NoProc,
         blocked' = [blocked EXCEPT ![x] = TRUE], UNCHANGED <<nextId, finished, ready>>
  PROVE  ReadyOnce' /\ OneHome'
<1> USE DEF Home
<1>1. Alive(x) /\ ~Queued(x)
  BY DEF OneHome
<1>2. \A q : (Alive(q)' <=> Alive(q))
  BY DEF Alive, Exists
<1>3. \A q \in Pid : blocked'[q] <=> blocked[q] \/ q = x
  BY DEF TypeOK
<1>4. ReadyOnce' /\ \A q : (Queued(q)' <=> Queued(q))
  BY SameQueue
<1>5. OneHome'
  BY <1>1, <1>2, <1>3, <1>4 DEF OneHome
<1> QED BY <1>4, <1>5

\* The running process goes to the back of the queue.
LEMMA RequeueHome ==
  ASSUME Home, NEW x \in Pid, current = x, current' = NoProc,
         ready' = Append(ready, x), UNCHANGED <<nextId, finished, blocked>>
  PROVE  ReadyOnce' /\ OneHome'
<1> USE DEF Home
<1>1. Alive(x) /\ ~Queued(x) /\ ~blocked[x]
  BY DEF OneHome
<1>2. ReadyOnce' /\ \A q : Queued(q)' <=> Queued(q) \/ q = x
  BY <1>1, Enqueue
<1>3. \A q : Alive(q)' <=> Alive(q)
  BY DEF Alive, Exists
<1>4. OneHome'
  BY <1>1, <1>2, <1>3 DEF OneHome
<1> QED BY <1>2, <1>4

\* A process that is blocked is woken, while the running one goes on or ends.
LEMMA WakeHome ==
  ASSUME Home, NEW q \in Pid, blocked[q],
         blocked' = [blocked EXCEPT ![q] = FALSE], ready' = Append(ready, q),
         UNCHANGED nextId,
         \/ UNCHANGED <<finished, current>>
         \/ \E x \in Pid : /\ current = x /\ current' = NoProc
                           /\ finished' = [finished EXCEPT ![x] = TRUE]
  PROVE  ReadyOnce' /\ OneHome'
<1> USE DEF Home
<1>1. Alive(q) /\ ~Queued(q) /\ current # q
  BY DEF OneHome
<1>2. ReadyOnce' /\ \A r : Queued(r)' <=> Queued(r) \/ r = q
  BY <1>1, Enqueue
<1>3. \A r \in Pid : blocked'[r] <=> blocked[r] /\ r # q
  BY DEF TypeOK
<1>4. OneHome'
  <2>1. CASE UNCHANGED <<finished, current>>
    <3>1. \A r : Alive(r)' <=> Alive(r)
      BY <2>1 DEF Alive, Exists
    <3> QED BY <1>1, <1>2, <1>3, <2>1, <3>1 DEF OneHome
  <2>2. ASSUME NEW x \in Pid, current = x, current' = NoProc,
               finished' = [finished EXCEPT ![x] = TRUE]
        PROVE  OneHome'
    <3>1. \A r \in Pid : Alive(r)' <=> Alive(r) /\ r # x
      BY <2>2 DEF Alive, Exists, TypeOK
    <3>2. ~Queued(x) /\ ~blocked[x] /\ x # q
      BY <1>1, <2>2 DEF OneHome
    <3> QED BY <1>1, <1>2, <1>3, <2>2, <3>1, <3>2 DEF OneHome
  <2> QED BY <2>1, <2>2
<1> QED BY <1>2, <1>4

\* A message is delivered, while the running process goes on or ends.
LEMMA DeliverHome ==
  ASSUME Home, NEW q, NEW m, Deliver(q, m), UNCHANGED nextId,
         \/ UNCHANGED <<finished, current>>
         \/ \E x \in Pid : /\ current = x /\ current' = NoProc
                           /\ finished' = [finished EXCEPT ![x] = TRUE]
  PROVE  ReadyOnce' /\ OneHome'
<1>1. CASE Alive(q) /\ blocked[q]
  <2>1. q \in Pid
    BY <1>1, SchedulerAssumption DEF Alive, Exists, Home, TypeOK
  <2>2. blocked' = [blocked EXCEPT ![q] = FALSE] /\ ready' = Append(ready, q)
    BY <1>1 DEF Deliver
  <2> QED BY <1>1, <2>1, <2>2, WakeHome
<1>2. CASE ~(Alive(q) /\ blocked[q])
  <2>1. UNCHANGED <<ready, blocked>>
    <3>1. CASE Alive(q)
      <4>1. /\ blocked' = [blocked EXCEPT ![q] = FALSE]
            /\ ready' = IF blocked[q] THEN Append(ready, q) ELSE ready
        BY <3>1 DEF Deliver
      <4>2. blocked \in [Pid -> BOOLEAN] /\ q \in Pid /\ blocked[q] = FALSE
        BY <1>2, <3>1, SchedulerAssumption DEF Home, TypeOK, Alive, Exists
      <4> QED BY <4>1, <4>2
    <3>2. CASE ~Alive(q)
      BY <3>2 DEF Deliver
    <3> QED BY <3>1, <3>2
  <2> QED BY <2>1, SameHome, ExitHome
<1> QED BY <1>1, <1>2

\* Only an existing process finishes, and no process stops existing.
LEMMA UnbornStep == Home /\ TypeOK' /\ [Next]_vars => Unborn'
<1> SUFFICES ASSUME Home, TypeOK', [Next]_vars PROVE Unborn'
  OBVIOUS
<1> USE DEF Home, procVars, waitVars, queueVars, driveVars
<1>1. nextId \in Nat /\ nextId' \in Nat /\ finished \in [Pid -> BOOLEAN]
  BY SchedulerAssumption DEF TypeOK
<1>2. ASSUME nextId' = nextId \/ nextId' = nextId + 1, finished' = finished PROVE Unborn'
  BY <1>1, <1>2 DEF Unborn
<1>3. ASSUME NEW p \in Pid, Finish(p) \/ Crash(p) PROVE Unborn'
  <2>1. finished' = [finished EXCEPT ![p] = TRUE] /\ nextId' = nextId /\ current = p
    BY <1>3 DEF Finish, Crash, Exit, InBody, InGuard, Scanning
  <2>2. p < nextId
    BY <2>1, <1>1 DEF OneHome, Alive, Exists
  <2> QED BY <2>1, <2>2, <1>1 DEF Unborn
<1>4. CASE Drive
  BY <1>2, <1>4 DEF Drive, StartLine, Launch, EndLine, FireTimeout, Resume, SleepUntil,
                    ReportStuck, Advance, SessionOver, vars
<1>5. ASSUME NEW p \in Pid, Scan(p) PROVE Unborn'
  BY <1>2, <1>5 DEF Scan, ScanHit, ScanMiss, ScanPreempt, TimeoutBranch
<1>6. ASSUME NEW p \in Pid, Operate(p) PROVE Unborn'
  BY <1>2, <1>6 DEF Operate, Spawn, Launch, Send, Receive, RegisterName, Preempt
<1>7. CASE UNCHANGED vars
  BY <1>2, <1>7 DEF vars
<1> QED BY <1>3, <1>4, <1>5, <1>6, <1>7 DEF Next

LEMMA HomeStep == Home /\ TypeOK' /\ [Next]_vars => ReadyOnce' /\ OneHome'
<1> SUFFICES ASSUME Home, TypeOK', [Next]_vars PROVE ReadyOnce' /\ OneHome'
  OBVIOUS
<1> USE SchedulerAssumption DEF Home, procVars, waitVars, queueVars, driveVars
<1>2. CASE StartLine
  BY <1>2, LaunchHome DEF StartLine
<1>3. CASE EndLine
  BY <1>3, SameHome DEF EndLine
<1>4. CASE FireTimeout
  <2>1. PICK t \in timers :
          IF Live(t)
          THEN /\ blocked' = [blocked EXCEPT ![t.pid] = FALSE]
               /\ ready' = Append(ready, t.pid)
          ELSE UNCHANGED <<blocked, ready>>
    BY <1>4 DEF FireTimeout, Expired
  <2>2. t.pid \in Pid
    BY <2>1 DEF Timer, TypeOK
  <2>3. UNCHANGED <<nextId, finished, current>>
    BY <1>4 DEF FireTimeout
  <2>4. CASE Live(t)
    BY <2>1, <2>2, <2>3, <2>4, WakeHome DEF Live
  <2>5. CASE ~Live(t)
    BY <2>1, <2>3, <2>5, SameHome
  <2> QED BY <2>4, <2>5
<1>5. CASE Resume
  <2>1. /\ ready \in Seq(Pid) /\ ready # <<>> /\ current = NoProc
        /\ ready' = Tail(ready)
        /\ current' = IF Alive(Head(ready)) THEN Head(ready) ELSE NoProc
        /\ UNCHANGED <<nextId, finished, blocked>>
    BY <1>5 DEF Resume, Driving, TypeOK
  <2>2. /\ Head(ready) \in Pid /\ Queued(Head(ready)) /\ ReadyOnce'
        /\ \A p : Queued(p)' <=> Queued(p) /\ p # Head(ready)
    BY <2>1, TailOccurs DEF ReadyOnce, Queued
  <2>3. Alive(Head(ready)) /\ ~blocked[Head(ready)]
    BY <2>2 DEF OneHome
  <2>4. \A p : Alive(p)' <=> Alive(p)
    BY <2>1 DEF Alive, Exists
  <2>5. OneHome'
    BY <2>1, <2>2, <2>3, <2>4 DEF OneHome
  <2> QED BY <2>2, <2>5
<1>6. CASE SleepUntil
  BY <1>6, SameHome DEF SleepUntil
<1>7. CASE ReportStuck
  BY <1>7, SameHome DEF ReportStuck
<1>8. CASE Advance
  BY <1>8, SameHome DEF Advance
<1>9. CASE SessionOver
  BY <1>9, SameHome DEF SessionOver, vars
<1>10. ASSUME NEW p \in Pid, ScanHit(p) \/ TimeoutBranch(p) PROVE ReadyOnce' /\ OneHome'
  BY <1>10, SameHome DEF ScanHit, TimeoutBranch
<1>11. ASSUME NEW p \in Pid, ScanMiss(p) PROVE ReadyOnce' /\ OneHome'
  BY <1>11, BlockHome DEF ScanMiss, Scanning
<1>12. ASSUME NEW p \in Pid, ScanPreempt(p) \/ Preempt(p) PROVE ReadyOnce' /\ OneHome'
  BY <1>12, RequeueHome DEF ScanPreempt, Preempt, InGuard, Scanning, InBody
<1>13. ASSUME NEW p \in Pid, Spawn(p) PROVE ReadyOnce' /\ OneHome'
  BY <1>13, LaunchHome DEF Spawn
<1>14. ASSUME NEW p \in Pid, NEW q \in Pid, NEW m \in Sent, Send(p, q, m)
       PROVE  ReadyOnce' /\ OneHome'
  BY <1>14, DeliverHome DEF Send
<1>15. ASSUME NEW p \in Pid, NEW want \in Wants, NEW d \in Delays \cup {Never},
              Receive(p, want, d)
       PROVE  ReadyOnce' /\ OneHome'
  BY <1>15, SameHome DEF Receive
<1>16. ASSUME NEW p \in Pid, NEW q \in Pid, NEW n \in Names, RegisterName(p, q, n)
       PROVE  ReadyOnce' /\ OneHome'
  BY <1>16, SameHome DEF RegisterName
<1>17. ASSUME NEW p \in Pid, Finish(p) \/ Crash(p) PROVE ReadyOnce' /\ OneHome'
  BY <1>17, ExitHome DEF Finish, Crash, Exit, InBody, InGuard, Scanning
<1>18. CASE UNCHANGED vars
  BY <1>18, SameHome DEF vars
<1> QED
  BY <1>2, <1>3, <1>4, <1>5, <1>6, <1>7, <1>8, <1>9, <1>10, <1>11, <1>12, <1>13,
     <1>14, <1>15, <1>16, <1>17, <1>18 DEF Next, Drive, Scan, Operate

LEMMA InitHome == Init => Home
<1>1. Init => ReadyOnce /\ OneHome
  BY SchedulerAssumption
     DEF Init, ReadyOnce, OneHome, NoRepeat, Queued, Occurs, Alive, Exists
<1>2. Init => Unborn
  BY DEF Init, Unborn
<1> QED BY <1>1, <1>2, InitTypeOK DEF Home

LEMMA NextHome == Home /\ [Next]_vars => Home'
BY NextTypeOK, UnbornStep, HomeStep DEF Home

\* A live process is running, queued once or blocked: never two, never none.
THEOREM EveryProcessHasOneHome == Spec => [](ReadyOnce /\ OneHome)
<1>1. Home => ReadyOnce /\ OneHome
  BY DEF Home
<1> QED BY InitHome, NextHome, <1>1, PTL DEF Spec

(***************************************************************************)
(* No lost wakeup: who is blocked has nothing to wake for.                 *)
(***************************************************************************)
Quiet == Home /\ BlockedInWait /\ NoLostWakeup

\* A step that blocks nobody, and leaves the blocked ones' waits and mailboxes.
LEMMA StaysQuiet ==
  ASSUME Quiet,
         \A p \in Pid : blocked'[p] =>
           blocked[p] /\ mailbox'[p] = mailbox[p] /\ wait'[p] = wait[p]
  PROVE  BlockedInWait' /\ NoLostWakeup'
<1>1. BlockedInWait'
  BY DEF Quiet, BlockedInWait
<1>2. ASSUME NEW p \in Pid, blocked'[p] PROVE Matching(p)' = {}
  <2>1. Matching(p) = {}
    BY <1>2 DEF Quiet, NoLostWakeup
  <2>2. mailbox'[p] = mailbox[p] /\ wait'[p] = wait[p]
    BY <1>2
  <2>3. Matching(p)' = Matching(p)
    BY <2>2 DEF Matching
  <2> QED BY <2>1, <2>3
<1> QED BY <1>1, <1>2 DEF NoLostWakeup

\* What a delivery does to mailboxes: only its target's grows, and it is awake.
LEMMA DeliverEffect ==
  ASSUME TypeOK, NEW q, NEW m \in Message, Deliver(q, m)
  PROVE  /\ \A p \in Pid : blocked'[p] => blocked[p] /\ mailbox'[p] = mailbox[p]
         /\ \A n : \A p \in Pid : Occurs(n, mailbox[p]) => Occurs(n, mailbox'[p])
         /\ Alive(q) => Occurs(m, mailbox'[q])
<1> USE SchedulerAssumption DEF TypeOK
<1>1. CASE Alive(q)
  <2>1. q \in Pid
    BY <1>1 DEF Alive, Exists
  <2>2. /\ mailbox' = [mailbox EXCEPT ![q] = Append(mailbox[q], m)]
        /\ blocked' = [blocked EXCEPT ![q] = FALSE]
    BY <1>1 DEF Deliver
  <2>3. /\ ~blocked'[q] /\ mailbox'[q] = Append(mailbox[q], m)
        /\ \A p \in Pid : p # q => blocked'[p] = blocked[p] /\ mailbox'[p] = mailbox[p]
    BY <2>1, <2>2
  <2>4. \A n : Occurs(n, Append(mailbox[q], m)) <=> Occurs(n, mailbox[q]) \/ n = m
    <3>1. mailbox[q] \in Seq(Message)
      BY <2>1
    <3> QED BY <3>1, AppendOccurs
  <2> QED BY <2>1, <2>3, <2>4
<1>2. CASE ~Alive(q)
  BY <1>2 DEF Deliver
<1> QED BY <1>1, <1>2

\* A step of x that gives x's wait and mailbox new values, x being unblocked.
LEMMA OwnQuiet ==
  ASSUME Quiet, NEW x \in Pid, ~blocked[x], blocked' = blocked,
         \A p \in Pid : p # x => mailbox'[p] = mailbox[p] /\ wait'[p] = wait[p]
  PROVE  BlockedInWait' /\ NoLostWakeup'
BY StaysQuiet

\* A launch.
LEMMA LaunchQuiet ==
  ASSUME Quiet, NEW w, Launch(w), UNCHANGED <<blocked, mailbox>>
  PROVE  BlockedInWait' /\ NoLostWakeup'
<1>0. Home /\ OneHome /\ TypeOK
  BY DEF Quiet, Home
<1>1. nextId \in Pid /\ ~Alive(nextId)
  BY <1>0, SchedulerAssumption DEF Launch, TypeOK, Alive, Exists
<1>2. ~blocked[nextId]
  BY <1>0, <1>1 DEF OneHome
<1>3. \A p \in Pid : p # nextId => wait'[p] = wait[p]
  BY <1>0 DEF Launch, TypeOK
<1> QED BY <1>1, <1>2, <1>3, OwnQuiet

LEMMA QuietStep == Quiet /\ TypeOK' /\ [Next]_vars => BlockedInWait' /\ NoLostWakeup'
<1> SUFFICES ASSUME Quiet, TypeOK', [Next]_vars PROVE BlockedInWait' /\ NoLostWakeup'
  OBVIOUS
<1> USE DEF procVars, waitVars, queueVars, driveVars
<1>0. Home /\ OneHome /\ TypeOK
  BY DEF Quiet, Home
<1>1. ASSUME UNCHANGED <<blocked, mailbox, wait>> PROVE BlockedInWait' /\ NoLostWakeup'
  BY <1>1, StaysQuiet
<1>4. CASE StartLine
  BY <1>4, LaunchQuiet DEF StartLine
<1>5. CASE FireTimeout
  <2>1. PICK t \in timers :
          IF Live(t) THEN blocked' = [blocked EXCEPT ![t.pid] = FALSE]
                     ELSE UNCHANGED blocked
    BY <1>5 DEF FireTimeout, Expired
  <2>2. t.pid \in Pid
    BY <1>0, <2>1 DEF Timer, TypeOK
  <2>3. \A p \in Pid : blocked'[p] => blocked[p]
    <3>1. CASE Live(t)
      BY <1>0, <2>1, <2>2, <3>1 DEF TypeOK
    <3>2. CASE ~Live(t)
      BY <2>1, <3>2
    <3> QED BY <3>1, <3>2
  <2>4. UNCHANGED <<mailbox, wait>>
    BY <1>5 DEF FireTimeout
  <2> QED BY <2>3, <2>4, StaysQuiet
<1>6. CASE EndLine \/ Resume \/ SleepUntil \/ ReportStuck \/ Advance \/ SessionOver
  BY <1>1, <1>6 DEF EndLine, Resume, SleepUntil, ReportStuck, Advance, SessionOver, vars
<1>7. ASSUME NEW p \in Pid, ScanHit(p) \/ TimeoutBranch(p)
      PROVE  BlockedInWait' /\ NoLostWakeup'
  <2>1. ~blocked[p]
    BY <1>0, <1>7 DEF ScanHit, Scanning, TimeoutBranch, OneHome
  <2>2. blocked' = blocked
    BY <1>7 DEF ScanHit, TimeoutBranch
  <2>3. \A q \in Pid : q # p => mailbox'[q] = mailbox[q] /\ wait'[q] = wait[q]
    BY <1>0, <1>7 DEF ScanHit, TimeoutBranch, TypeOK
  <2> QED BY <2>1, <2>2, <2>3, OwnQuiet
<1>8. ASSUME NEW p \in Pid, ScanMiss(p) PROVE BlockedInWait' /\ NoLostWakeup'
  <2>1. /\ wait[p].kind \in ScanKinds /\ Matching(p) = {}
        /\ mailbox' = mailbox
        /\ blocked' = [blocked EXCEPT ![p] = TRUE]
        /\ wait' = [wait EXCEPT ![p] = [wait[p] EXCEPT !.parked = TRUE]]
    BY <1>8 DEF ScanMiss, Scanning
  <2>2. \A q \in Pid : q # p => blocked'[q] = blocked[q] /\ wait'[q] = wait[q]
    BY <1>0, <2>1 DEF TypeOK
  <2>3. wait'[p].kind = wait[p].kind /\ wait'[p].want = wait[p].want /\ wait'[p].parked
    <3>1. wait[p] \in Wait /\ wait'[p] = [wait[p] EXCEPT !.parked = TRUE]
      BY <1>0, <2>1 DEF TypeOK
    <3> QED BY <3>1 DEF Wait
  <2>4. Matching(p)' = {}
    BY <2>1, <2>3 DEF Matching
  <2>5. \A q \in Pid : q # p => Matching(q)' = Matching(q)
    BY <2>1, <2>2 DEF Matching
  <2>6. BlockedInWait'
    BY <2>1, <2>2, <2>3 DEF Quiet, BlockedInWait, TimedKinds
  <2>7. NoLostWakeup'
    BY <2>2, <2>4, <2>5 DEF Quiet, NoLostWakeup
  <2> QED BY <2>6, <2>7
<1>9. ASSUME NEW p \in Pid, ScanPreempt(p) \/ Preempt(p) \/ Finish(p) \/ Crash(p)
      PROVE  BlockedInWait' /\ NoLostWakeup'
  BY <1>1, <1>9 DEF ScanPreempt, Preempt, Finish, Crash
<1>10. ASSUME NEW p \in Pid, Spawn(p) PROVE BlockedInWait' /\ NoLostWakeup'
  BY <1>10, LaunchQuiet DEF Spawn
<1>11. ASSUME NEW p \in Pid, NEW q \in Pid, NEW m \in Sent, Send(p, q, m)
       PROVE  BlockedInWait' /\ NoLostWakeup'
  <2>1. wait' = wait /\ m \in Message
    BY <1>11, SchedulerAssumption DEF Send
  <2>2. \A r \in Pid : blocked'[r] => blocked[r] /\ mailbox'[r] = mailbox[r]
    BY <1>0, <1>11, <2>1, DeliverEffect DEF Send
  <2> QED BY <2>1, <2>2, StaysQuiet
<1>12. ASSUME NEW p \in Pid, NEW want \in Wants, NEW d \in Delays \cup {Never},
              Receive(p, want, d)
       PROVE  BlockedInWait' /\ NoLostWakeup'
  <2>1. ~blocked[p]
    BY <1>0, <1>12 DEF Receive, InBody, OneHome
  <2>2. UNCHANGED <<blocked, mailbox>>
    BY <1>12 DEF Receive
  <2>3. \A q \in Pid : q # p => wait'[q] = wait[q]
    BY <1>0, <1>12 DEF Receive, BeginWait, TypeOK
  <2> QED BY <2>1, <2>2, <2>3, OwnQuiet
<1>13. ASSUME NEW p \in Pid, NEW q \in Pid, NEW n \in Names, RegisterName(p, q, n)
       PROVE  BlockedInWait' /\ NoLostWakeup'
  BY <1>1, <1>13 DEF RegisterName
<1>14. CASE UNCHANGED vars
  BY <1>1, <1>14 DEF vars
<1> QED
  BY <1>4, <1>5, <1>6, <1>7, <1>8, <1>9, <1>10, <1>11, <1>12, <1>13, <1>14
     DEF Next, Drive, Scan, Operate

LEMMA InitQuiet == Init => Quiet
<1>1. Init => BlockedInWait /\ NoLostWakeup
  BY DEF Init, BlockedInWait, NoLostWakeup
<1> QED BY <1>1, InitHome DEF Quiet

LEMMA NextQuiet == Quiet /\ [Next]_vars => Quiet'
BY NextHome, QuietStep, NextTypeOK DEF Quiet, Home

\* A process blocked in a wait has no message that would end it.
THEOREM NobodySleepsOnAMessage == Spec => []NoLostWakeup
<1>1. Quiet => NoLostWakeup
  BY DEF Quiet
<1> QED BY InitQuiet, NextQuiet, <1>1, PTL DEF Spec

(***************************************************************************)
(* Timeouts: a wait is ended by its own deadline, after it has passed.     *)
(***************************************************************************)
Timely == Quiet /\ TimersOwned /\ TimeoutNotEarly

\* What TypeOK says of the clock, the generations and the timers.
LEMMA Counters ==
  ASSUME TypeOK
  PROVE  /\ now \in Nat
         /\ \A p \in Pid : generation[p] \in Nat
         /\ \A t \in timers : t.pid \in Pid /\ t.gen \in Nat /\ t.at \in Nat
<1>1. 0 .. MaxClock \subseteq Nat /\ 0 .. MaxWaits \subseteq Nat
  BY SchedulerAssumption
<1>2. now \in Nat
  BY <1>1 DEF TypeOK
<1>3. \A p \in Pid : generation[p] \in Nat
  BY <1>1 DEF TypeOK
<1>4. \A t \in Timer : t.pid \in Pid /\ t.gen \in Nat /\ t.at \in Nat
  BY <1>1 DEF Timer
<1> QED BY <1>2, <1>3, <1>4 DEF TypeOK

\* A step that adds no timer and wakes nobody by timeout, and either leaves a
\* process's wait alone, ends it for one without a deadline, or begins a new one.
LEMMA StaysTimely ==
  ASSUME Timely, TypeOK', timers' \subseteq timers, now' >= now,
         \A p \in Pid : woke'[p] => woke[p],
         \A p \in Pid :
           \/ generation'[p] = generation[p] /\ wait'[p] = wait[p]
           \/ /\ generation'[p] = generation[p]
              /\ wait'[p].kind \notin TimedKinds /\ ~wait'[p].parked
           \/ generation'[p] = generation[p] + 1 /\ ~wait'[p].parked
  PROVE  TimersOwned' /\ TimeoutNotEarly'
<1>1. TypeOK
  BY DEF Timely, Quiet, Home
<1>2. ASSUME NEW t \in timers'
      PROVE  /\ t.gen <= generation'[t.pid]
             /\ t.gen = generation'[t.pid] /\ wait'[t.pid].kind \in TimedKinds
                  => wait'[t.pid].parked /\ t.at = wait'[t.pid].deadline
  <2>1. /\ t.pid \in Pid /\ t.gen \in Nat /\ generation[t.pid] \in Nat
        /\ t.gen <= generation[t.pid]
        /\ t.gen = generation[t.pid] /\ wait[t.pid].kind \in TimedKinds
             => wait[t.pid].parked /\ t.at = wait[t.pid].deadline
    <3>1. t \in timers /\ t.pid \in Pid /\ t.gen \in Nat /\ generation[t.pid] \in Nat
      BY <1>1, Counters
    <3> QED BY <3>1 DEF Timely, TimersOwned
  <2>2. CASE generation'[t.pid] = generation[t.pid] /\ wait'[t.pid] = wait[t.pid]
    BY <2>1, <2>2
  <2>3. CASE generation'[t.pid] = generation[t.pid] /\ wait'[t.pid].kind \notin TimedKinds
    BY <2>1, <2>3
  <2>4. CASE generation'[t.pid] = generation[t.pid] + 1
    BY <2>1, <2>4
  <2> QED BY <2>1, <2>2, <2>3, <2>4
<1>3. TimersOwned'
  BY <1>2 DEF TimersOwned
<1>4. ASSUME NEW p \in Pid, wait'[p].parked, woke'[p]
      PROVE  wait'[p].deadline # Never /\ wait'[p].deadline <= now'
  <2>1. wait'[p] = wait[p] /\ woke[p]
    BY <1>4
  <2>2. wait[p].deadline # Never /\ wait[p].deadline <= now
    BY <1>4, <2>1 DEF Timely, TimeoutNotEarly, TimedOut
  <2>3. wait[p].deadline \in Int /\ now \in Int /\ now' \in Int
    <3>1. now \in Time /\ now' \in Time
      BY <1>1 DEF TypeOK
    <3>2. wait[p].deadline \in Time \cup {Never}
      BY <1>1, Zenon DEF TypeOK, Wait
    <3> QED BY <3>1, <3>2, SchedulerAssumption DEF Time, Never
  <2> QED BY <2>1, <2>2, <2>3
<1>5. TimeoutNotEarly'
  BY <1>4 DEF TimeoutNotEarly, TimedOut
<1> QED BY <1>3, <1>5

\* Kex code is no wait with a deadline.
LEMMA BodyPlain == Body.kind \notin TimedKinds /\ ~Body.parked
BY DEF Body, TimedKinds, ScanKinds

\* A process starts in no wait with a deadline.
LEMMA LaunchTimely ==
  ASSUME Timely, TypeOK', NEW w, w.kind \notin TimedKinds, ~w.parked, Launch(w),
         UNCHANGED <<generation, woke, timers, now>>
  PROVE  TimersOwned' /\ TimeoutNotEarly'
<1>0. TypeOK /\ now \in Nat
  BY Counters DEF Timely, Quiet, Home
<1>1. \A p \in Pid : wait'[p] = wait[p] \/ wait'[p] = w
  BY <1>0 DEF Launch, TypeOK
<1> QED BY <1>0, <1>1, StaysTimely

LEMMA TimelyStep == Timely /\ TypeOK' /\ [Next]_vars => TimersOwned' /\ TimeoutNotEarly'
<1> SUFFICES ASSUME Timely, TypeOK', [Next]_vars PROVE TimersOwned' /\ TimeoutNotEarly'
  OBVIOUS
<1> USE DEF procVars, waitVars, queueVars, driveVars
<1>0. Quiet /\ Home /\ OneHome /\ TypeOK /\ BlockedInWait /\ now \in Nat
  BY Counters DEF Timely, Quiet, Home
<1>1. ASSUME UNCHANGED <<generation, wait, woke, timers>>, now' >= now
      PROVE  TimersOwned' /\ TimeoutNotEarly'
  BY <1>1, StaysTimely
<1>3. CASE StartLine
  BY <1>3, BodyPlain, LaunchTimely DEF StartLine
<1>4. CASE FireTimeout
  <2>1. PICK t \in timers :
          /\ t.at <= now
          /\ timers' = timers \ {t}
          /\ IF Live(t) THEN woke' = [woke EXCEPT ![t.pid] = TRUE]
                        ELSE UNCHANGED woke
    BY <1>4 DEF FireTimeout, Expired
  <2>2. UNCHANGED <<generation, wait, now>>
    BY <1>4 DEF FireTimeout
  <2>3. CASE Live(t)
    <3>1. t.pid \in Pid /\ t.at \in Nat
      BY <1>0, <2>1, Counters
    <3>2. t.gen = generation[t.pid] /\ blocked[t.pid]
      BY <2>3 DEF Live
    <3>3. wait[t.pid].parked => t.at = wait[t.pid].deadline
      BY <1>0, <2>1, <3>1, <3>2 DEF Timely, TimersOwned, BlockedInWait
    <3>4. TimersOwned'
      BY <2>1, <2>2 DEF Timely, TimersOwned
    <3>5. \A p \in Pid : p # t.pid => woke'[p] = woke[p]
      BY <1>0, <2>1, <2>3, <3>1 DEF TypeOK
    <3>6. ASSUME NEW p \in Pid, wait'[p].parked, woke'[p]
          PROVE  wait'[p].deadline # Never /\ wait'[p].deadline <= now'
      <4>1. CASE p = t.pid
        BY <2>1, <2>2, <3>1, <3>3, <3>6, <4>1
      <4>2. CASE p # t.pid
        BY <2>2, <3>5, <3>6, <4>2 DEF Timely, TimeoutNotEarly, TimedOut
      <4> QED BY <4>1, <4>2
    <3>7. TimeoutNotEarly'
      BY <3>6 DEF TimeoutNotEarly, TimedOut
    <3> QED BY <3>4, <3>7
  <2>4. CASE ~Live(t)
    BY <1>0, <2>1, <2>2, <2>4, StaysTimely
  <2> QED BY <2>3, <2>4
<1>5. CASE EndLine \/ Resume \/ ReportStuck \/ SessionOver
  BY <1>0, <1>1, <1>5 DEF EndLine, Resume, ReportStuck, SessionOver, vars
<1>6. CASE SleepUntil
  <2>1. PICK t \in timers : now' \in t.at .. MaxClock
    BY <1>6 DEF SleepUntil
  <2>2. t.at \in Nat /\ ~(t.at <= now)
    BY <1>0, <1>6, <2>1, SchedulerAssumption DEF SleepUntil, Expired, TypeOK, Timer
  <2>3. now' >= now
    BY <1>0, <2>1, <2>2, SchedulerAssumption
  <2>4. UNCHANGED <<generation, wait, woke, timers>>
    BY <1>6 DEF SleepUntil
  <2> QED BY <1>1, <2>3, <2>4
<1>7. CASE Advance
  BY <1>0, <1>1, <1>7 DEF Advance
<1>8. ASSUME NEW p \in Pid, ScanHit(p) PROVE TimersOwned' /\ TimeoutNotEarly'
  <2>1. UNCHANGED <<generation, woke, timers, now>> /\ wait' = [wait EXCEPT ![p] = Body]
    BY <1>8 DEF ScanHit
  <2>2. \A q \in Pid : wait'[q] = wait[q] \/ wait'[q] = Body
    BY <1>0, <2>1 DEF TypeOK
  <2> QED BY <1>0, <2>1, <2>2, BodyPlain, StaysTimely
<1>9. ASSUME NEW p \in Pid, TimeoutBranch(p) PROVE TimersOwned' /\ TimeoutNotEarly'
  <2>1. /\ UNCHANGED <<generation, timers, now>>
        /\ wait' = [wait EXCEPT ![p] = Body] /\ woke' = [woke EXCEPT ![p] = FALSE]
    BY <1>9 DEF TimeoutBranch
  <2>2. \A q \in Pid : (wait'[q] = wait[q] \/ wait'[q] = Body) /\ (woke'[q] => woke[q])
    BY <1>0, <2>1 DEF TypeOK
  <2> QED BY <1>0, <2>1, <2>2, BodyPlain, StaysTimely
<1>10. ASSUME NEW p \in Pid, ScanMiss(p) PROVE TimersOwned' /\ TimeoutNotEarly'
  <2>1. /\ timers' = Arm(p) /\ UNCHANGED <<generation, now>>
        /\ wait' = [wait EXCEPT ![p] = [wait[p] EXCEPT !.parked = TRUE]]
        /\ woke' = [woke EXCEPT ![p] = FALSE]
    BY <1>10 DEF ScanMiss
  <2>2. /\ \A q \in Pid : q # p => wait'[q] = wait[q] /\ woke'[q] = woke[q]
        /\ ~woke'[p]
    BY <1>0, <2>1 DEF TypeOK
  <2>3. /\ wait'[p].parked /\ wait'[p].deadline = wait[p].deadline
        /\ wait'[p].kind = wait[p].kind /\ wait[p].kind \in TimedKinds
    <3>1. wait[p] \in Wait /\ wait'[p] = [wait[p] EXCEPT !.parked = TRUE]
      BY <1>0, <2>1 DEF TypeOK
    <3>2. wait[p].kind \in TimedKinds
      BY <1>10 DEF ScanMiss, Scanning, TimedKinds
    <3> QED BY <3>1, <3>2 DEF Wait
  <2>4. ASSUME NEW t \in timers'
        PROVE  /\ t.gen <= generation'[t.pid]
               /\ t.gen = generation'[t.pid] /\ wait'[t.pid].kind \in TimedKinds
                    => wait'[t.pid].parked /\ t.at = wait'[t.pid].deadline
    <3>1. CASE t \in timers
      <4>1. /\ t.pid \in Pid /\ t.gen <= generation[t.pid]
            /\ t.gen = generation[t.pid] /\ wait[t.pid].kind \in TimedKinds
                 => wait[t.pid].parked /\ t.at = wait[t.pid].deadline
        BY <1>0, <3>1 DEF Timely, TimersOwned, TypeOK, Timer
      <4> QED BY <2>1, <2>2, <2>3, <4>1
    <3>2. CASE t = [at |-> wait[p].deadline, pid |-> p, gen |-> generation[p]]
      <4>1. generation[p] \in Nat
        BY <1>0, SchedulerAssumption DEF TypeOK
      <4> QED BY <2>1, <2>3, <3>2, <4>1
    <3> QED BY <2>1, <3>1, <3>2 DEF Arm
  <2>5. TimersOwned'
    BY <2>4 DEF TimersOwned
  <2>6. TimeoutNotEarly'
    BY <2>1, <2>2 DEF Timely, TimeoutNotEarly, TimedOut
  <2> QED BY <2>5, <2>6
<1>11. ASSUME NEW p \in Pid, ScanPreempt(p) \/ Preempt(p) \/ Finish(p) \/ Crash(p)
       PROVE  TimersOwned' /\ TimeoutNotEarly'
  <2>1. UNCHANGED <<generation, wait, woke, timers, now>>
    BY <1>11 DEF ScanPreempt, Preempt, Finish, Crash
  <2> QED BY <1>0, <1>1, <2>1
<1>12. ASSUME NEW p \in Pid, Spawn(p) PROVE TimersOwned' /\ TimeoutNotEarly'
  BY <1>12, BodyPlain, LaunchTimely DEF Spawn
<1>13. ASSUME NEW p \in Pid, NEW q \in Pid, NEW m \in Sent, Send(p, q, m)
       PROVE  TimersOwned' /\ TimeoutNotEarly'
  BY <1>0, <1>1, <1>13 DEF Send
<1>14. ASSUME NEW p \in Pid, NEW want \in Wants, NEW d \in Delays \cup {Never},
              Receive(p, want, d)
       PROVE  TimersOwned' /\ TimeoutNotEarly'
  <2>1. /\ UNCHANGED <<timers, woke, now>>
        /\ generation' = [generation EXCEPT ![p] = generation[p] + 1]
    BY <1>14 DEF Receive, BeginWait
  <2>2. \A q \in Pid : q # p => generation'[q] = generation[q] /\ wait'[q] = wait[q]
    BY <1>0, <1>14 DEF Receive, BeginWait, TypeOK
  <2>3. generation'[p] = generation[p] + 1
    BY <1>0, <2>1 DEF TypeOK
  <2>4. ~wait'[p].parked
    BY <1>0, <1>14 DEF Receive, BeginWait, TypeOK
  <2> QED BY <1>0, <2>1, <2>2, <2>3, <2>4, StaysTimely
<1>15. ASSUME NEW p \in Pid, NEW q \in Pid, NEW n \in Names, RegisterName(p, q, n)
       PROVE  TimersOwned' /\ TimeoutNotEarly'
  BY <1>0, <1>1, <1>15 DEF RegisterName
<1>16. CASE UNCHANGED vars
  BY <1>0, <1>1, <1>16 DEF vars
<1> QED
  BY <1>3, <1>4, <1>5, <1>6, <1>7, <1>8, <1>9, <1>10, <1>11, <1>12, <1>13, <1>14,
     <1>15, <1>16 DEF Next, Drive, Scan, Operate

LEMMA InitTimely == Init => Timely
<1>1. Init => TimersOwned /\ TimeoutNotEarly
  BY DEF Init, TimersOwned, TimeoutNotEarly, TimedOut
<1> QED BY <1>1, InitQuiet DEF Timely

LEMMA NextTimely == Timely /\ [Next]_vars => Timely'
BY NextQuiet, TimelyStep, NextTypeOK DEF Timely, Quiet, Home

\* A wait that its timeout ends has a deadline of its own, which has passed.
THEOREM TimeoutsAreNotEarly == Spec => []TimeoutNotEarly
<1>1. Timely => TimeoutNotEarly
  BY DEF Timely
<1> QED BY InitTimely, NextTimely, <1>1, PTL DEF Spec

(***************************************************************************)
(* The deadlock report.                                                    *)
(***************************************************************************)
Honest == Quiet /\ LineOpen /\ StuckIsReal

LEMMA HonestStep == Honest /\ TypeOK' /\ [Next]_vars => LineOpen' /\ StuckIsReal'
<1> SUFFICES ASSUME Honest, TypeOK', [Next]_vars PROVE LineOpen' /\ StuckIsReal'
  OBVIOUS
<1> USE DEF procVars, waitVars, queueVars, driveVars
<1>0. /\ Quiet /\ LineOpen /\ StuckIsReal
      /\ Home /\ OneHome /\ NoLostWakeup /\ TypeOK
  BY DEF Honest, Quiet, Home
\* A process that runs does so under a line, which has no report yet.
<1>1. ASSUME target # NoProc, UNCHANGED <<report, target>>
      PROVE  LineOpen' /\ StuckIsReal'
  BY <1>0, <1>1 DEF LineOpen, StuckIsReal
<1>2. CASE StartLine
  BY <1>0, <1>2 DEF StartLine, Launch, LineOpen, StuckIsReal, TypeOK
<1>3. CASE EndLine
  BY <1>0, <1>3 DEF EndLine, LineOpen, StuckIsReal
<1>4. CASE FireTimeout \/ Resume \/ SleepUntil
  BY <1>1, <1>4 DEF FireTimeout, Resume, SleepUntil, Driving
<1>5. CASE ReportStuck
  <2>1. /\ current = NoProc /\ ready = <<>>
        /\ target' = NoProc /\ current' = current
        /\ UNCHANGED <<nextId, finished, blocked, mailbox, wait>>
    BY <1>5 DEF ReportStuck, Driving
  <2>2. \A p \in Pid : Alive(p) => blocked[p]
    BY <1>0, <2>1 DEF OneHome, Queued, Occurs
  <2>3. \A p \in Pid : Alive(p) => blocked[p] /\ Matching(p) = {}
    BY <1>0, <2>2 DEF NoLostWakeup
  <2>4. \A p \in Pid : Alive(p)' => blocked'[p] /\ Matching(p)' = {}
    BY <2>1, <2>3 DEF Alive, Exists, Matching
  <2>5. StuckIsReal'
    BY <2>4 DEF StuckIsReal
  <2>6. LineOpen'
    BY <2>1 DEF LineOpen
  <2> QED BY <2>5, <2>6
<1>6. CASE Advance \/ SessionOver \/ UNCHANGED vars
  <2>1. UNCHANGED <<nextId, finished, blocked, mailbox, wait, current, target, report>>
    BY <1>6 DEF Advance, SessionOver, vars
  <2>2. \A p : (Alive(p)' <=> Alive(p)) /\ Matching(p)' = Matching(p)
    BY <2>1 DEF Alive, Exists, Matching
  <2> QED BY <1>0, <2>1, <2>2 DEF LineOpen, StuckIsReal
<1>7. ASSUME NEW p \in Pid, Scan(p) \/ Operate(p) \/ Finish(p) \/ Crash(p)
      PROVE  LineOpen' /\ StuckIsReal'
  <2>1. current = p /\ UNCHANGED <<target, report>>
    BY <1>7 DEF Scan, ScanHit, ScanMiss, ScanPreempt, TimeoutBranch, Scanning, Operate,
                Spawn, Send, Receive, RegisterName, Preempt, Finish, Crash, InBody,
                InGuard
  <2>2. target # NoProc
    BY <1>0, <2>1 DEF LineOpen
  <2> QED BY <1>1, <2>1, <2>2
<1> QED BY <1>2, <1>3, <1>4, <1>5, <1>6, <1>7 DEF Next, Drive

\* A line is reported stuck only when no live process can run again.
THEOREM StuckMeansStuck == Spec => []StuckIsReal
<1>1. Init => Honest
  <2>1. Init => LineOpen /\ StuckIsReal
    BY DEF Init, LineOpen, StuckIsReal
  <2> QED BY <2>1, InitQuiet DEF Honest
<1>2. Honest /\ [Next]_vars => Honest'
  BY NextQuiet, HonestStep, NextTypeOK DEF Honest, Quiet, Home
<1>3. Honest => StuckIsReal
  BY DEF Honest
<1> QED BY <1>1, <1>2, <1>3, PTL DEF Spec

\* All of the above at once, which one step after the other keeps.
Settled == Timely /\ Honest

LEMMA InitSettled == Init => Settled
<1>1. Init => LineOpen /\ StuckIsReal
  BY DEF Init, LineOpen, StuckIsReal
<1> QED BY <1>1, InitQuiet, InitTimely DEF Settled, Honest

LEMMA NextSettled == Settled /\ [Next]_vars => Settled'
BY NextTimely, NextQuiet, HonestStep, NextTypeOK DEF Settled, Honest, Quiet, Home

LEMMA SettledConsistent ==
  Settled => Consistent /\ OneHome /\ NoLostWakeup /\ TimeoutNotEarly /\ StuckIsReal
BY DEF Settled, Timely, Quiet, Home, Honest, Consistent

\* The strengthening itself: timers, blocks and reports never contradict the
\* waits and lines they belong to.
THEOREM AlwaysConsistent == Spec => []Consistent
BY InitSettled, NextSettled, SettledConsistent, PTL DEF Spec

(*************** Tasks, servers and supervisors on top of it ***************)

(***************************************************************************)
(* Envelopes and waits.                                                    *)
(***************************************************************************)

\* What the actors send is a message, and the kinds of it differ.
LEMMA EnvelopeFacts ==
  /\ \A t \in Pid : TaskResult(t) \in Message /\ TaskResult(t) \notin Calls \cup {ServerCast}
  /\ \A r \in Ref : ServerReply(r) \in Message /\ ServerReply(r) \notin Calls \cup {ServerCast}
  /\ Calls \subseteq Message /\ ServerCast \in Message /\ ServerCast \notin Calls
  /\ NoRequest \notin Calls \cup {ServerCast}
<1>1. Envelopes \subseteq Message
  BY ActorsAssumption
<1>2. /\ \A t \in Pid : TaskResult(t) \in Envelopes
      /\ \A r \in Ref : ServerReply(r) \in Envelopes
      /\ Calls \subseteq Envelopes /\ ServerCast \in Envelopes
  BY DEF Envelopes
<1>3. /\ \A t : TaskResult(t).tag = "task_result"
      /\ \A r : ServerReply(r).tag = "server_reply"
      /\ \A r, q : ServerCall(r, q).tag = "server_call"
      /\ ServerCast.tag = "server_cast" /\ NoRequest.tag = "none"
  BY DEF TaskResult, ServerReply, ServerCall, ServerCast, NoRequest, Envelope
<1>4. \A c \in Calls : c.tag = "server_call"
  BY <1>3 DEF Calls
<1> QED BY <1>1, <1>2, <1>3, <1>4

\* A request carries its reference and its caller.
LEMMA CallFacts ==
  /\ \A r \in Ref, p \in Pid :
       ServerCall(r, p) \in Calls /\ ServerCall(r, p).id = r /\ ServerCall(r, p).from = p
  /\ \A c \in Calls : c.id \in Ref /\ c.from \in Pid /\ c = ServerCall(c.id, c.from)
BY DEF Calls, ServerCall, Envelope

\* The waits the loops are in.
LEMMA LoopWaits ==
  /\ Body \in Wait /\ Serving \in Wait /\ Starting \in Wait /\ Polling \in Wait
  /\ \A w \in {Body, Serving, Starting, Polling} : w.kind \notin TimedKinds /\ ~w.parked
  /\ Body.kind = "body" /\ Serving.kind = "serve"
  /\ Starting.kind = "starting" /\ Polling.kind = "polling"
<1>1. Body \in Wait /\ Body.kind = "body" /\ ~Body.parked
  BY DEF Body, Wait, WaitKinds
<1>2. Serving \in Wait /\ Serving.kind = "serve" /\ ~Serving.parked
  BY DEF Serving, Wait, WaitKinds
<1>3. Starting \in Wait /\ Starting.kind = "starting" /\ ~Starting.parked
  BY <1>1 DEF Starting, Wait, WaitKinds
<1>4. Polling \in Wait /\ Polling.kind = "polling" /\ ~Polling.parked
  BY <1>1 DEF Polling, Wait, WaitKinds
<1> QED BY <1>1, <1>2, <1>3, <1>4 DEF TimedKinds, ScanKinds

\* What a sequence holds.
LEMMA SeqElement == ASSUME NEW S, NEW q \in Seq(S), NEW j \in DOMAIN q PROVE q[j] \in S
OBVIOUS

\* A child is replaced in its place.
LEMMA ChildReplaced ==
  \A q \in Seq(Pid), e \in Pid : \A i \in DOMAIN q :
    /\ [q EXCEPT ![i] = e] \in Seq(Pid)
    /\ DOMAIN [q EXCEPT ![i] = e] = DOMAIN q /\ Len([q EXCEPT ![i] = e]) = Len(q)
OBVIOUS

(***************************************************************************)
(* Type correctness.                                                       *)
(***************************************************************************)
ActorsOwn ==
    /\ role \in [Pid -> {"plain", "task", "server", "supervisor"}]
    /\ spawner \in [Pid -> Pid \cup {NoProc}]
    /\ serving \in [Pid -> Calls \cup {ServerCast, NoRequest}]
    /\ held \in [Pid -> SUBSET Calls]
    /\ nextCall \in 1 .. (MaxCalls + 1)
    /\ children \in [Pid -> Seq(Pid)]
    /\ cursor \in [Pid -> 0 .. NumWorkers]
    /\ collected \subseteq Pid
    /\ dropped \subseteq Calls
    /\ started \subseteq Pid \X (1 .. NumWorkers) \X Pid
    /\ overdue \subseteq Pid \X (1 .. NumWorkers) \X Pid

LEMMA TypeParts == ActorsTypeOK <=> TypeOK /\ ActorsOwn
BY DEF ActorsTypeOK, ActorsOwn

\* A process of its own kind is launched.
LEMMA LaunchTyped ==
  ASSUME TypeOK, NEW w \in Wait, Launch(w),
         UNCHANGED <<finished, error, firstCrash, mailbox, blocked, generation, woke,
                     timers, driveVars, names>>
  PROVE  TypeOK' /\ nextId \in Pid
BY SchedulerAssumption DEF Launch, TypeOK, driveVars

\* The scheduler's variables keep their types in the actors' own steps.
LEMMA SchedTyped ==
  ASSUME ActorsTypeOK, Loops, NEW p \in Pid, Actor(p) \/ TaskDone(p) \/ Server(p) \/ Supervisor(p)
  PROVE  TypeOK'
<1>0. TypeOK /\ ActorsOwn
  BY TypeParts
<1> USE DEF procVars, waitVars, queueVars, driveVars
<1>1. CASE StartTask(p) \/ StartServer(p) \/ StartSupervisor(p)
  <2>1. PICK w \in {Body, Serving, Starting} : Launch(w)
    BY <1>1 DEF StartTask, StartServer, StartSupervisor, LaunchAs
  <2>2. UNCHANGED <<finished, error, firstCrash, mailbox, blocked, generation, woke,
                    timers, driveVars, names>>
    BY <1>1 DEF StartTask, StartServer, StartSupervisor, LaunchAs
  <2> QED BY <1>0, <2>1, <2>2, LoopWaits, LaunchTyped
<1>2. CASE StartChild(p) \/ Respawn(p)
  <2>1. Launch(Body)
    BY <1>2 DEF StartChild, Respawn, RunBlock
  <2>2. UNCHANGED <<finished, error, firstCrash, mailbox, blocked, generation, woke,
                    timers, driveVars, names>>
    BY <1>2 DEF StartChild, Respawn, RunBlock
  <2> QED BY <1>0, <2>1, <2>2, LoopWaits, LaunchTyped
<1>3. CASE TaskDone(p)
  <2>1. /\ mailbox' \in [Pid -> Seq(Message)] /\ blocked' \in [Pid -> BOOLEAN]
        /\ ready' \in Seq(Pid)
    BY <1>0, <1>3, EnvelopeFacts, DeliverTyped DEF TaskDone
  <2> QED BY <1>0, <1>3, <2>1 DEF TaskDone, Exit, TypeOK
<1>4. ASSUME NEW t \in Pid, NEW d \in Delays \cup {Never}, Await(p, t, d) PROVE TypeOK'
  <2>1. {TaskResult(t)} \in SUBSET Message /\ "await" \in WaitKinds
    BY EnvelopeFacts DEF WaitKinds
  <2>2. wait' \in [Pid -> Wait] /\ generation' \in [Pid -> 0 .. MaxWaits]
    BY <1>0, <1>4, <2>1, BeginWaitTyped DEF Await
  <2> QED BY <1>0, <1>4, <2>2 DEF Await, TypeOK
<1>5. ASSUME NEW s \in Pid, Cast(p, s) PROVE TypeOK'
  <2>1. /\ mailbox' \in [Pid -> Seq(Message)] /\ blocked' \in [Pid -> BOOLEAN]
        /\ ready' \in Seq(Pid)
    BY <1>0, <1>5, EnvelopeFacts, DeliverTyped DEF Cast
  <2> QED BY <1>0, <1>5, <2>1 DEF Cast, TypeOK
<1>6. ASSUME NEW s \in Pid, NEW d \in Delays \cup {Never}, Call(p, s, d) PROVE TypeOK'
  <2>1. nextCall \in Ref /\ ServerCall(nextCall, p) \in Message
    BY <1>6, EnvelopeFacts, CallFacts DEF Call
  <2>2. /\ mailbox' \in [Pid -> Seq(Message)] /\ blocked' \in [Pid -> BOOLEAN]
        /\ ready' \in Seq(Pid)
    BY <1>0, <1>6, <2>1, DeliverTyped DEF Call
  <2>3. {ServerReply(nextCall)} \in SUBSET Message /\ "call" \in WaitKinds
    BY <2>1, EnvelopeFacts DEF WaitKinds
  <2>4. wait' \in [Pid -> Wait] /\ generation' \in [Pid -> 0 .. MaxWaits]
    <3>1. CASE Alive(s)
      BY <1>0, <1>6, <2>3, <3>1, BeginWaitTyped DEF Call
    <3>2. CASE ~Alive(s)
      BY <1>0, <1>6, <3>2 DEF Call, TypeOK
    <3> QED BY <3>1, <3>2
  <2> QED BY <1>0, <1>6, <2>2, <2>4 DEF Call, TypeOK
<1>7. CASE ServeIdle(p)
  BY <1>0, <1>7 DEF ServeIdle, TypeOK
<1>8. CASE ServeSkip(p) \/ ServeTake(p)
  <2>1. Tail(mailbox[p]) \in Seq(Message)
    BY <1>0, <1>8 DEF ServeSkip, ServeTake, TypeOK
  <2>2. mailbox' \in [Pid -> Seq(Message)]
    BY <1>0, <1>8, <2>1 DEF ServeSkip, ServeTake, TypeOK
  <2>3. wait' \in [Pid -> Wait]
    BY <1>0, <1>8, LoopWaits DEF ServeSkip, ServeTake, TypeOK
  <2> QED BY <1>0, <1>8, <2>2, <2>3 DEF ServeSkip, ServeTake, TypeOK
<1>9. ASSUME NEW stop \in BOOLEAN, SlotReply(p, stop) \/ SlotHold(p, stop) \/ SlotDrop(p, stop)
      PROVE  TypeOK'
  <2>1. AfterSlot(p, stop)
    BY <1>9 DEF SlotReply, SlotHold, SlotDrop
  <2>2. /\ mailbox' \in [Pid -> Seq(Message)] /\ blocked' \in [Pid -> BOOLEAN]
        /\ ready' \in Seq(Pid)
    <3>1. CASE SlotReply(p, stop)
      <4>1. ServerReply(serving[p].id) \in Message
        BY <3>1, CallFacts, EnvelopeFacts DEF SlotReply
      <4> QED BY <1>0, <3>1, <4>1, DeliverTyped DEF SlotReply
    <3>2. CASE SlotHold(p, stop) \/ SlotDrop(p, stop)
      BY <1>0, <3>2 DEF SlotHold, SlotDrop, TypeOK
    <3> QED BY <1>9, <3>1, <3>2
  <2>3. wait' \in [Pid -> Wait]
    BY <1>0, <2>1, LoopWaits DEF AfterSlot, TypeOK
  <2>4. /\ finished' \in [Pid -> BOOLEAN] /\ error' \in [Pid -> BOOLEAN]
        /\ firstCrash' \in Pid \cup {NoProc} /\ current' \in Pid \cup {NoProc}
    BY <1>0, <2>1 DEF AfterSlot, Exit, TypeOK
  <2> QED BY <1>0, <2>1, <2>2, <2>3, <2>4 DEF AfterSlot, TypeOK
<1>10. ASSUME NEW request \in Calls, ReplyFrom(p, request) PROVE TypeOK'
  <2>1. ServerReply(request.id) \in Message
    BY CallFacts, EnvelopeFacts
  <2>2. /\ mailbox' \in [Pid -> Seq(Message)] /\ blocked' \in [Pid -> BOOLEAN]
        /\ ready' \in Seq(Pid)
    BY <1>0, <1>10, <2>1, DeliverTyped DEF ReplyFrom
  <2> QED BY <1>0, <1>10, <2>2 DEF ReplyFrom, TypeOK
<1>11. CASE SupervisorSleeps(p)
  <2>1. SleepFor(p, PollDelay)
    BY <1>11 DEF SupervisorSleeps
  <2>2. now + PollDelay \in Time /\ generation[p] + 1 \in 0 .. MaxWaits
    BY <1>0, <2>1, SchedulerAssumption, ActorsAssumption DEF SleepFor, TypeOK
  <2>3. wait' \in [Pid -> Wait]
    <3>1. [kind |-> "sleep", want |-> {}, deadline |-> now + PollDelay, parked |-> TRUE] \in Wait
      BY <2>2 DEF Wait, WaitKinds
    <3>2. wait' = [wait EXCEPT ![p] = [kind |-> "sleep", want |-> {},
                                       deadline |-> now + PollDelay, parked |-> TRUE]]
      BY <2>1 DEF SleepFor
    <3>3. PICK w \in Wait : wait' = [wait EXCEPT ![p] = w]
      BY <3>1, <3>2, Zenon
    <3> QED BY <1>0, <3>3 DEF TypeOK
  <2>4. timers' \in SUBSET Timer
    BY <1>0, <2>1, <2>2 DEF SleepFor, Timer, TypeOK
  <2>5. generation' \in [Pid -> 0 .. MaxWaits]
    <3>1. generation' = [generation EXCEPT ![p] = generation[p] + 1]
      BY <2>1 DEF SleepFor
    <3> QED BY <1>0, <2>2, <3>1 DEF TypeOK
  <2> QED BY <1>0, <2>1, <2>3, <2>4, <2>5 DEF SleepFor, TypeOK
<1>12. CASE SleepOver(p)
  BY <1>0, <1>12, LoopWaits DEF SleepOver, TypeOK
<1>13. CASE PollAlive(p)
  BY <1>0, <1>13 DEF PollAlive, vars, TypeOK
<1>14. CASE RespawnFails(p)
  BY <1>0, <1>14 DEF RespawnFails, Exit, TypeOK
<1>15. CASE SupervisorAtBound(p)
  BY <1>0, <1>15 DEF SupervisorAtBound, TypeOK
<1> QED
  BY <1>1, <1>2, <1>3, <1>4, <1>5, <1>6, <1>7, <1>8, <1>9, <1>10, <1>11, <1>12, <1>13,
     <1>14, <1>15 DEF Actor, Server, Supervisor

\* The actors' own variables keep theirs.
LEMMA OwnTyped ==
  ASSUME ActorsTypeOK, Loops, NEW p \in Pid, Actor(p) \/ TaskDone(p) \/ Server(p) \/ Supervisor(p)
  PROVE  ActorsOwn'
<1>0. TypeOK /\ ActorsOwn
  BY TypeParts
<1> USE DEF ActorsOwn
<1>1. CASE StartTask(p) \/ StartServer(p) \/ StartSupervisor(p)
  <2>1. nextId \in Pid
    BY <1>0, <1>1, SchedulerAssumption
       DEF StartTask, StartServer, StartSupervisor, LaunchAs, Launch, TypeOK
  <2>2. /\ role' \in [Pid -> {"plain", "task", "server", "supervisor"}]
        /\ spawner' \in [Pid -> Pid \cup {NoProc}]
    BY <1>0, <1>1, <2>1 DEF StartTask, StartServer, StartSupervisor, LaunchAs
  <2> QED BY <1>0, <1>1, <2>2 DEF StartTask, StartServer, StartSupervisor
<1>2. CASE StartChild(p) \/ Respawn(p)
  <2>1. nextId \in Pid
    BY <1>0, <1>2, SchedulerAssumption DEF StartChild, Respawn, RunBlock, Launch, TypeOK
  <2>2. CASE StartChild(p)
    <3>1. Len(children[p]) + 1 \in 1 .. NumWorkers
      BY <1>0, <2>2, ActorsAssumption DEF StartChild
    <3>2. <<p, Len(children[p]) + 1, nextId>> \in Pid \X (1 .. NumWorkers) \X Pid
      BY <2>1, <3>1
    <3>3. Append(children[p], nextId) \in Seq(Pid)
      BY <1>0, <2>1
    <3> QED BY <1>0, <2>2, <3>2, <3>3 DEF StartChild, RunBlock
  <2>3. CASE Respawn(p)
    <3>1. cursor[p] + 1 \in 1 .. NumWorkers /\ cursor[p] + 1 \in 0 .. NumWorkers
      BY <1>0, <2>3, ActorsAssumption DEF Respawn, AtChild
    <3>2. <<p, cursor[p] + 1, nextId>> \in Pid \X (1 .. NumWorkers) \X Pid
      BY <2>1, <3>1
    <3>3. cursor[p] + 1 \in DOMAIN children[p]
      BY <1>0, <2>3, <3>1 DEF Respawn, AtChild, Loops, Loop
    <3>4. [children[p] EXCEPT ![cursor[p] + 1] = nextId] \in Seq(Pid)
      BY <1>0, <2>1, <3>3, ChildReplaced
    <3> QED BY <1>0, <2>3, <3>1, <3>2, <3>4 DEF Respawn, RunBlock
  <2> QED BY <1>2, <2>2, <2>3
<1>3. CASE TaskDone(p)
  BY <1>0, <1>3 DEF TaskDone, actorVars
<1>4. ASSUME NEW t \in Pid, NEW d \in Delays \cup {Never}, Await(p, t, d) PROVE ActorsOwn'
  BY <1>0, <1>4 DEF Await, actorVars
<1>5. ASSUME NEW s \in Pid, Cast(p, s) PROVE ActorsOwn'
  BY <1>0, <1>5 DEF Cast, actorVars
<1>6. ASSUME NEW s \in Pid, NEW d \in Delays \cup {Never}, Call(p, s, d) PROVE ActorsOwn'
  <2>1. nextCall' \in 1 .. (MaxCalls + 1)
    BY <1>6, ActorsAssumption DEF Call, Ref
  <2> QED BY <1>0, <1>6, <2>1 DEF Call
<1>7. CASE ServeIdle(p)
  BY <1>0, <1>7 DEF ServeIdle, actorVars
<1>8. CASE ServeSkip(p)
  BY <1>0, <1>8 DEF ServeSkip, Results
<1>9. CASE ServeTake(p)
  BY <1>0, <1>9 DEF ServeTake
<1>10. ASSUME NEW stop \in BOOLEAN, SlotReply(p, stop) \/ SlotHold(p, stop) \/ SlotDrop(p, stop)
       PROVE  ActorsOwn'
  <2>1. AfterSlot(p, stop)
    BY <1>10 DEF SlotReply, SlotHold, SlotDrop
  <2>2. held' \in [Pid -> SUBSET Calls] /\ dropped' \subseteq Calls
    BY <1>0, <1>10 DEF SlotReply, SlotHold, SlotDrop
  <2> QED BY <1>0, <2>1, <2>2 DEF AfterSlot
<1>11. ASSUME NEW request \in Calls, ReplyFrom(p, request) PROVE ActorsOwn'
  BY <1>0, <1>11 DEF ReplyFrom
<1>12. CASE SupervisorSleeps(p)
  <2>1. 0 \in 0 .. NumWorkers
    BY ActorsAssumption
  <2> QED BY <1>0, <1>12, <2>1 DEF SupervisorSleeps
<1>13. CASE SleepOver(p)
  <2>1. ASSUME NEW i \in 1 .. NumWorkers, DeadChild(p, i)
        PROVE  <<p, i, children[p][i]>> \in Pid \X (1 .. NumWorkers) \X Pid
    <3>1. children[p] \in Seq(Pid) /\ i \in DOMAIN children[p]
      BY <1>0, <2>1 DEF DeadChild
    <3>2. children[p][i] \in Pid
      BY <3>1, SeqElement
    <3> QED BY <3>2
  <2>2. overdue' \subseteq Pid \X (1 .. NumWorkers) \X Pid
    BY <1>0, <1>13, <2>1 DEF SleepOver
  <2> QED BY <1>0, <1>13, <2>2 DEF SleepOver
<1>14. CASE PollAlive(p)
  <2>1. cursor[p] + 1 \in 0 .. NumWorkers
    BY <1>0, <1>14, ActorsAssumption DEF PollAlive, AtChild
  <2> QED BY <1>0, <1>14, <2>1 DEF PollAlive
<1>15. CASE RespawnFails(p) \/ SupervisorAtBound(p)
  BY <1>0, <1>15 DEF RespawnFails, SupervisorAtBound, actorVars
<1> QED
  BY <1>1, <1>2, <1>3, <1>4, <1>5, <1>6, <1>7, <1>8, <1>9, <1>10, <1>11, <1>12, <1>13,
     <1>14, <1>15 DEF Actor, Server, Supervisor

\* A step that Scheduler takes too, with what it adds to the history of Actors.
SchedStep ==
    \/ Drive /\ UNCHANGED actorVars
    \/ \E p \in Pid : Operate(p) /\ UNCHANGED actorVars
    \/ \E p \in Pid : ScanActors(p)
    \/ \E p \in Pid : role[p] = "plain" /\ Finish(p) /\ UNCHANGED actorVars
    \/ \E p \in Pid : role[p] \in {"plain", "server"} /\ Crash(p) /\ UNCHANGED actorVars

LEMMA SchedStepNext == SchedStep => Next
BY DEF SchedStep, Next, ScanActors

\* Every other step is one process's, as a task, a server, a supervisor or a
\* program that uses them.
LEMMA Steps ==
  ASSUME [NextActors]_allVars
  PROVE  \/ SchedStep \/ UNCHANGED allVars
         \/ \E p \in Pid : Actor(p) \/ TaskDone(p) \/ Server(p) \/ Supervisor(p)
BY DEF NextActors, SchedStep, Leave

\* Every variable keeps its type.
LEMMA NextActorsTyped ==
  ASSUME ActorsTypeOK, Loops, [NextActors]_allVars
  PROVE  ActorsTypeOK'
<1>0. TypeOK /\ ActorsOwn
  BY TypeParts
<1>1. CASE SchedStep
  <2>1. TypeOK'
    BY <1>0, <1>1, SchedStepNext, NextTypeOK
  <2>2. ActorsOwn'
    <3>1. CASE UNCHANGED actorVars
      BY <1>0, <3>1 DEF ActorsOwn, actorVars
    <3>2. ASSUME NEW p \in Pid, ScanActors(p) PROVE ActorsOwn'
      BY <1>0, <3>2 DEF ActorsOwn, ScanActors, Results, Requests
    <3> QED BY <1>1, <3>1, <3>2 DEF SchedStep
  <2> QED BY <2>1, <2>2 DEF ActorsTypeOK, ActorsOwn
<1>2. CASE UNCHANGED allVars
  <2>1. TypeOK'
    BY <1>0, <1>2, NextTypeOK DEF allVars
  <2>2. ActorsOwn'
    BY <1>0, <1>2 DEF ActorsOwn, allVars, actorVars
  <2> QED BY <2>1, <2>2 DEF ActorsTypeOK, ActorsOwn
<1>3. ASSUME NEW p \in Pid, Actor(p) \/ TaskDone(p) \/ Server(p) \/ Supervisor(p)
      PROVE  ActorsTypeOK'
  BY <1>3, SchedTyped, OwnTyped DEF ActorsTypeOK, ActorsOwn
<1> QED BY <1>1, <1>2, <1>3, Steps

(***************************************************************************)
(* Scheduler's promises, under the actors' own steps.                      *)
(***************************************************************************)

\* What Settled says, taken apart.
LEMMA SettledFacts ==
  ASSUME Settled
  PROVE  /\ Timely /\ Honest /\ Quiet /\ Home
         /\ TypeOK /\ Unborn /\ ReadyOnce /\ OneHome /\ BlockedInWait /\ NoLostWakeup
         /\ LineOpen /\ StuckIsReal /\ now \in Nat /\ nextId \in Nat
<1>1. Timely /\ Honest /\ Quiet /\ Home
  BY DEF Settled, Timely, Quiet
<1>2. TypeOK /\ Unborn /\ ReadyOnce /\ OneHome
  BY <1>1 DEF Home
<1>3. now \in Nat /\ nextId \in Nat
  BY <1>2, SchedulerAssumption DEF TypeOK
<1> QED BY <1>1, <1>2, <1>3 DEF Honest, Quiet

\* Under a line that goes on, a step is settled when its processes are.
LEMMA SettledAgain ==
  ASSUME Settled, TypeOK', NEW x \in Pid, current = x, current' \in {x, NoProc},
         nextId' \in {nextId, nextId + 1}, UNCHANGED <<target, report>>,
         finished' = finished \/ finished' = [finished EXCEPT ![x] = TRUE],
         ReadyOnce', OneHome', BlockedInWait', NoLostWakeup', TimersOwned', TimeoutNotEarly'
  PROVE  Settled'
<1>0. /\ TypeOK /\ Unborn /\ OneHome /\ LineOpen /\ nextId \in Nat /\ nextId' \in Nat
      /\ report' = report /\ target' = target /\ nextId' >= nextId
  BY SettledFacts
<1>1. x < nextId
  BY <1>0 DEF OneHome, Alive, Exists
<1>2. Unborn'
  BY <1>0, <1>1 DEF Unborn, TypeOK
<1>3. target # NoProc /\ report.kind = "none"
  BY <1>0 DEF LineOpen, TypeOK, Report
<1>4. LineOpen' /\ StuckIsReal'
  BY <1>0, <1>3 DEF LineOpen, StuckIsReal
<1> QED BY <1>2, <1>4 DEF Settled, Timely, Honest, Quiet, Home

\* What a step of the running process x that blocks nobody and starts nobody may
\* do: say something to somebody, change its own wait, and end.
OwnStep(x) ==
    /\ current = x
    /\ UNCHANGED <<nextId, timers, target, now, report>>
    /\ \/ UNCHANGED <<finished, current>>
       \/ current' = NoProc /\ finished' = [finished EXCEPT ![x] = TRUE]
    /\ \/ UNCHANGED <<blocked, ready>> /\ \A p \in Pid : p # x => mailbox'[p] = mailbox[p]
       \/ \E q \in Pid \cup {NoProc} : \E m \in Message : Deliver(q, m)
    /\ \A p \in Pid : woke'[p] => woke[p]
    /\ \A p \in Pid : p # x => wait'[p] = wait[p] /\ generation'[p] = generation[p]
    /\ \/ /\ generation'[x] = generation[x]
          /\ wait'[x] = wait[x] \/ (wait'[x].kind \notin TimedKinds /\ ~wait'[x].parked)
       \/ generation'[x] = generation[x] + 1 /\ ~wait'[x].parked

LEMMA OwnStepSettled ==
  ASSUME Settled, TypeOK', NEW x \in Pid, OwnStep(x)
  PROVE  Settled'
<1>0. TypeOK /\ OneHome /\ Home /\ Quiet /\ Timely /\ current = x /\ now \in Nat
  BY SettledFacts DEF OwnStep
<1>1. ReadyOnce' /\ OneHome'
  <2>1. CASE \E q \in Pid \cup {NoProc} : \E m \in Message : Deliver(q, m)
    BY <1>0, <2>1, DeliverHome DEF OwnStep
  <2>2. CASE UNCHANGED <<blocked, ready>>
    BY <1>0, <2>2, SameHome, ExitHome DEF OwnStep
  <2> QED BY <2>1, <2>2 DEF OwnStep
<1>2. BlockedInWait' /\ NoLostWakeup'
  <2>1. ~blocked[x]
    BY <1>0 DEF OneHome
  <2>2. \A p \in Pid : blocked'[p] => blocked[p] /\ (p # x => mailbox'[p] = mailbox[p])
    <3>1. ASSUME NEW q \in Pid \cup {NoProc}, NEW m \in Message, Deliver(q, m)
          PROVE  \A p \in Pid : blocked'[p] => blocked[p] /\ mailbox'[p] = mailbox[p]
      BY <1>0, <3>1, DeliverEffect
    <3> QED BY <3>1 DEF OwnStep
  <2>3. \A p \in Pid : blocked'[p] =>
          blocked[p] /\ mailbox'[p] = mailbox[p] /\ wait'[p] = wait[p]
    BY <2>1, <2>2 DEF OwnStep
  <2> QED BY <1>0, <2>3, StaysQuiet
<1>3. TimersOwned' /\ TimeoutNotEarly'
  <2>1. timers' \subseteq timers /\ now' >= now
    BY <1>0 DEF OwnStep
  <2>2. \A p \in Pid :
          \/ generation'[p] = generation[p] /\ wait'[p] = wait[p]
          \/ /\ generation'[p] = generation[p]
             /\ wait'[p].kind \notin TimedKinds /\ ~wait'[p].parked
          \/ generation'[p] = generation[p] + 1 /\ ~wait'[p].parked
    BY DEF OwnStep
  <2>3. \A p \in Pid : woke'[p] => woke[p]
    BY DEF OwnStep
  <2> QED BY <1>0, <2>1, <2>2, <2>3, StaysTimely
<1> QED BY <1>0, <1>1, <1>2, <1>3, SettledAgain DEF OwnStep

\* One that leaves the waits alone.
LEMMA OwnStepStill ==
  ASSUME NEW x \in Pid, current = x,
         UNCHANGED <<nextId, timers, target, now, report>>,
         UNCHANGED <<wait, generation, woke>>,
         \/ UNCHANGED <<finished, current>>
         \/ current' = NoProc /\ finished' = [finished EXCEPT ![x] = TRUE],
         \/ UNCHANGED <<blocked, ready>> /\ \A p \in Pid : p # x => mailbox'[p] = mailbox[p]
         \/ \E q \in Pid \cup {NoProc} : \E m \in Message : Deliver(q, m)
  PROVE  OwnStep(x)
<1>1. wait' = wait /\ generation' = generation /\ woke' = woke
  OBVIOUS
<1>2. \A p \in Pid : woke'[p] => woke[p]
  BY <1>1, Zenon
<1>3. \A p \in Pid : p # x => wait'[p] = wait[p] /\ generation'[p] = generation[p]
  BY <1>1, Zenon
<1>4. \/ /\ generation'[x] = generation[x]
         /\ wait'[x] = wait[x] \/ (wait'[x].kind \notin TimedKinds /\ ~wait'[x].parked)
      \/ generation'[x] = generation[x] + 1 /\ ~wait'[x].parked
  BY <1>1, Zenon
<1> QED BY <1>2, <1>3, <1>4 DEF OwnStep

\* A wait begins.
LEMMA BeginWaitOwn ==
  ASSUME TypeOK, NEW p \in Pid, NEW kind, NEW want, NEW d, BeginWait(p, kind, want, d)
  PROVE  /\ \A q \in Pid : q # p => wait'[q] = wait[q] /\ generation'[q] = generation[q]
         /\ generation'[p] = generation[p] + 1
         /\ ~wait'[p].parked /\ wait'[p].kind = kind /\ wait'[p].want = want
<1>1. /\ generation' = [generation EXCEPT ![p] = generation[p] + 1]
      /\ wait' = [wait EXCEPT ![p] =
           [kind |-> kind, want |-> want, parked |-> FALSE,
            deadline |-> IF d = Never THEN Never ELSE now + d]]
  BY DEF BeginWait
<1> QED BY <1>1 DEF TypeOK

\* The actors' steps that are a process's own.
LEMMA OwnSteps ==
  ASSUME ActorsTypeOK, Loops, NEW p \in Pid,
         \/ \E t \in Pid, d \in Delays \cup {Never} : Await(p, t, d)
         \/ \E s \in Pid : Cast(p, s)
         \/ \E s \in Pid, d \in Delays \cup {Never} : Call(p, s, d)
         \/ TaskDone(p) \/ ServeSkip(p) \/ ServeTake(p)
         \/ \E stop \in BOOLEAN : SlotReply(p, stop) \/ SlotHold(p, stop) \/ SlotDrop(p, stop)
         \/ \E request \in Calls : ReplyFrom(p, request)
         \/ SleepOver(p) \/ PollAlive(p) \/ RespawnFails(p)
  PROVE  OwnStep(p)
<1>0. TypeOK /\ ActorsOwn
  BY TypeParts
<1> USE DEF procVars, waitVars, queueVars, driveVars
<1>1. ASSUME NEW t \in Pid, NEW d \in Delays \cup {Never}, Await(p, t, d) PROVE OwnStep(p)
  <2>1. BeginWait(p, "await", {TaskResult(t)}, d)
    BY <1>1 DEF Await
  <2> QED BY <1>0, <1>1, <2>1, BeginWaitOwn DEF OwnStep, Await, InBody
<1>2. ASSUME NEW s \in Pid, Cast(p, s) PROVE OwnStep(p)
  BY <1>2, EnvelopeFacts DEF OwnStep, Cast, InBody
<1>3. ASSUME NEW s \in Pid, NEW d \in Delays \cup {Never}, Call(p, s, d) PROVE OwnStep(p)
  <2>1. nextCall \in Ref /\ ServerCall(nextCall, p) \in Message
    BY <1>3, EnvelopeFacts, CallFacts DEF Call
  <2>2. /\ current = p /\ Deliver(s, ServerCall(nextCall, p))
        /\ UNCHANGED <<nextId, finished, current, timers, target, now, report, woke>>
    BY <1>3 DEF Call, InBody
  <2>3. CASE Alive(s)
    <3>1. BeginWait(p, "call", {ServerReply(nextCall)}, d)
      BY <1>3, <2>3 DEF Call
    <3> QED BY <1>0, <2>1, <2>2, <3>1, BeginWaitOwn DEF OwnStep
  <2>4. CASE ~Alive(s)
    <3>1. UNCHANGED <<generation, wait>>
      BY <1>3, <2>4 DEF Call
    <3> QED BY <2>1, <2>2, <3>1 DEF OwnStep
  <2> QED BY <2>3, <2>4
<1>4. CASE TaskDone(p)
  <2>1. spawner[p] \in Pid \cup {NoProc} /\ TaskResult(p) \in Message
    BY <1>0, EnvelopeFacts DEF ActorsOwn
  <2> QED BY <1>4, <2>1 DEF OwnStep, TaskDone, Exit, InBody, InGuard, Scanning
<1>5. CASE ServeSkip(p)
  <2>1. \A q \in Pid : q # p => mailbox'[q] = mailbox[q]
    BY <1>0, <1>5 DEF ServeSkip, TypeOK
  <2> QED BY <1>5, <2>1 DEF OwnStep, ServeSkip, InServeLoop
<1>6. CASE ServeTake(p)
  <2>1. \A q \in Pid : q # p => mailbox'[q] = mailbox[q] /\ wait'[q] = wait[q]
    BY <1>0, <1>6 DEF ServeTake, TypeOK
  <2>2. wait'[p] = Body
    BY <1>0, <1>6 DEF ServeTake, TypeOK
  <2> QED BY <1>6, <2>1, <2>2, BodyPlain DEF OwnStep, ServeTake, InServeLoop
<1>7. ASSUME NEW stop \in BOOLEAN, SlotReply(p, stop) \/ SlotHold(p, stop) \/ SlotDrop(p, stop)
      PROVE  OwnStep(p)
  <2>1. AfterSlot(p, stop) /\ current = p
    BY <1>7 DEF SlotReply, SlotHold, SlotDrop, InSlot, InBody
  <2>2. \/ UNCHANGED <<blocked, ready, mailbox>>
        \/ \E q \in Pid \cup {NoProc} : \E m \in Message : Deliver(q, m)
    <3>1. CASE SlotReply(p, stop)
      <4>1. serving[p].from \in Pid /\ ServerReply(serving[p].id) \in Message
        BY <3>1, CallFacts, EnvelopeFacts DEF SlotReply
      <4> QED BY <3>1, <4>1 DEF SlotReply
    <3> QED BY <1>7, <3>1 DEF SlotHold, SlotDrop
  <2>3. /\ \/ UNCHANGED <<finished, current>>
           \/ current' = NoProc /\ finished' = [finished EXCEPT ![p] = TRUE]
        /\ UNCHANGED <<nextId, timers, target, now, report, woke, generation>>
    BY <2>1 DEF AfterSlot, Exit
  <2>4. /\ \A q \in Pid : q # p => wait'[q] = wait[q]
        /\ wait'[p] = wait[p] \/ wait'[p] = Serving
    BY <1>0, <2>1 DEF AfterSlot, TypeOK
  <2> QED BY <2>1, <2>2, <2>3, <2>4, LoopWaits DEF OwnStep
<1>8. ASSUME NEW request \in Calls, ReplyFrom(p, request) PROVE OwnStep(p)
  <2>1. request.from \in Pid /\ ServerReply(request.id) \in Message
    BY CallFacts, EnvelopeFacts
  <2> QED BY <1>8, <2>1 DEF OwnStep, ReplyFrom, InSlot, InBody
<1>9. CASE SleepOver(p)
  <2>1. /\ \A q \in Pid : q # p => wait'[q] = wait[q]
        /\ wait'[p] = Polling /\ \A q \in Pid : woke'[q] => woke[q]
    BY <1>0, <1>9 DEF SleepOver, TypeOK
  <2> QED BY <1>9, <2>1, LoopWaits DEF OwnStep, SleepOver
<1>10. CASE PollAlive(p)
  BY <1>10 DEF OwnStep, PollAlive, AtChild, vars
<1>11. CASE RespawnFails(p)
  BY <1>11 DEF OwnStep, RespawnFails, AtChild, Exit
<1> QED
  BY <1>1, <1>2, <1>3, <1>4, <1>5, <1>6, <1>7, <1>8, <1>9, <1>10, <1>11

\* A process starts, in a loop or in Kex code.
LEMMA LaunchSettled ==
  ASSUME Settled, TypeOK', NEW x \in Pid, current = x,
         NEW w \in {Body, Serving, Starting}, Launch(w),
         UNCHANGED <<finished, mailbox, blocked, generation, woke, timers, driveVars>>
  PROVE  Settled'
<1>0. TypeOK /\ Home /\ Quiet /\ Timely /\ nextId \in Nat
  BY SettledFacts
<1>1. /\ UNCHANGED <<current, target, now, report>>
      /\ UNCHANGED <<blocked, mailbox, generation, woke, timers, finished>>
  BY DEF driveVars
<1>2. ReadyOnce' /\ OneHome'
  BY <1>0, <1>1, LaunchHome
<1>3. BlockedInWait' /\ NoLostWakeup'
  BY <1>0, <1>1, LaunchQuiet
<1>4. TimersOwned' /\ TimeoutNotEarly'
  <2>1. w.kind \notin TimedKinds /\ ~w.parked
    BY LoopWaits
  <2> QED BY <1>0, <1>1, <2>1, LaunchTimely
<1>5. nextId' = nextId + 1
  BY DEF Launch
<1> QED BY <1>1, <1>2, <1>3, <1>4, <1>5, SettledAgain

\* A server with an empty mailbox blocks: nothing it takes is in there.
LEMMA IdleSettled ==
  ASSUME Settled, TypeOK', NEW s \in Pid, Loop(s), ServeIdle(s)
  PROVE  Settled'
<1>0. TypeOK /\ Home /\ Quiet /\ Timely /\ now \in Nat /\ BlockedInWait /\ NoLostWakeup
  BY SettledFacts
<1>1. /\ current = s /\ current' = NoProc /\ mailbox[s] = <<>> /\ wait[s].kind = "serve"
      /\ blocked' = [blocked EXCEPT ![s] = TRUE]
      /\ UNCHANGED <<nextId, finished, ready, target, now, report>>
      /\ UNCHANGED <<mailbox, wait, generation, woke, timers>>
  BY DEF ServeIdle, InServeLoop, procVars, queueVars
<1>2. ReadyOnce' /\ OneHome'
  BY <1>0, <1>1, BlockHome
<1>3. \A q \in Pid : blocked'[q] <=> blocked[q] \/ q = s
  BY <1>0, <1>1 DEF TypeOK
<1>4. BlockedInWait'
  <2>1. ~wait[s].parked
    BY <1>1, LoopWaits DEF Loop
  <2> QED BY <1>0, <1>1, <1>3, <2>1 DEF BlockedInWait
<1>5. NoLostWakeup'
  <2>1. \A q \in Pid : Matching(q)' = Matching(q)
    BY <1>1 DEF Matching
  <2>2. Matching(s) = {}
    BY <1>1 DEF Matching
  <2> QED BY <1>0, <1>3, <2>1, <2>2 DEF NoLostWakeup
<1>6. TimersOwned' /\ TimeoutNotEarly'
  <2>1. timers' \subseteq timers /\ now' >= now
    BY <1>0, <1>1
  <2>2. \A q \in Pid : generation'[q] = generation[q] /\ wait'[q] = wait[q]
    BY <1>1
  <2>3. \A q \in Pid : woke'[q] => woke[q]
    BY <1>1
  <2> QED BY <1>0, <2>1, <2>2, <2>3, StaysTimely
<1> QED BY <1>1, <1>2, <1>4, <1>5, <1>6, SettledAgain

\* A supervisor goes to sleep: what it waits for is its timer, and no message.
LEMMA SleepSettled ==
  ASSUME Settled, TypeOK', NEW s \in Pid, current = s, NEW d \in Nat, SleepFor(s, d)
  PROVE  Settled'
<1>0. /\ TypeOK /\ Home /\ Quiet /\ Timely /\ now \in Nat /\ BlockedInWait /\ NoLostWakeup
      /\ TimersOwned /\ TimeoutNotEarly /\ generation[s] \in Nat
  BY SettledFacts, Counters DEF Timely
<1>1. /\ current' = NoProc /\ blocked' = [blocked EXCEPT ![s] = TRUE]
      /\ UNCHANGED <<nextId, finished, ready, target, now, report, mailbox>>
      /\ woke' = [woke EXCEPT ![s] = FALSE]
  BY DEF SleepFor, procVars
<1>2. PICK w : /\ w = [kind |-> "sleep", want |-> {}, deadline |-> now + d, parked |-> TRUE]
               /\ wait' = [wait EXCEPT ![s] = w]
  BY Zenon DEF SleepFor
<1>3. /\ w.kind = "sleep" /\ w.want = {} /\ w.deadline = now + d /\ w.parked
      /\ wait'[s] = w /\ \A q \in Pid : q # s => wait'[q] = wait[q]
  BY <1>0, <1>2 DEF TypeOK
<1>4. PICK t : /\ t = [at |-> now + d, pid |-> s, gen |-> generation[s] + 1]
               /\ timers' = timers \cup {t}
  BY Zenon DEF SleepFor
<1>5. /\ generation' = [generation EXCEPT ![s] = generation[s] + 1]
      /\ generation'[s] = generation[s] + 1
      /\ \A q \in Pid : q # s => generation'[q] = generation[q]
  BY <1>0 DEF SleepFor, TypeOK
<1>6. ReadyOnce' /\ OneHome'
  BY <1>0, <1>1, BlockHome
<1>7. \A q \in Pid : q # s => blocked'[q] = blocked[q] /\ woke'[q] = woke[q]
  BY <1>0, <1>1 DEF TypeOK
<1>8. BlockedInWait'
  BY <1>0, <1>3, <1>7 DEF BlockedInWait, TimedKinds
<1>9. NoLostWakeup'
  <2>1. \A q \in Pid : q # s => Matching(q)' = Matching(q)
    BY <1>1, <1>3 DEF Matching
  <2>2. Matching(s)' = {}
    BY <1>3 DEF Matching
  <2> QED BY <1>0, <1>7, <2>1, <2>2 DEF NoLostWakeup
<1>10. TimersOwned'
  <2>1. ASSUME NEW u \in timers'
        PROVE  /\ u.gen <= generation'[u.pid]
               /\ u.gen = generation'[u.pid] /\ wait'[u.pid].kind \in TimedKinds
                    => wait'[u.pid].parked /\ u.at = wait'[u.pid].deadline
    <3>1. CASE u = t
      <4>1. u.at = now + d /\ u.pid = s /\ u.gen = generation[s] + 1
        BY <1>4, <3>1
      <4> QED BY <1>0, <1>3, <1>5, <4>1
    <3>2. CASE u \in timers
      <4>1. /\ u.pid \in Pid /\ u.gen \in Nat /\ generation[u.pid] \in Nat
            /\ u.gen <= generation[u.pid]
            /\ u.gen = generation[u.pid] /\ wait[u.pid].kind \in TimedKinds
                 => wait[u.pid].parked /\ u.at = wait[u.pid].deadline
        BY <1>0, <3>2, Counters DEF TimersOwned
      <4>2. CASE u.pid = s
        BY <1>5, <4>1, <4>2
      <4>3. CASE u.pid # s
        BY <1>3, <1>5, <4>1, <4>3
      <4> QED BY <4>2, <4>3
    <3> QED BY <1>4, <3>1, <3>2
  <2> QED BY <2>1 DEF TimersOwned
<1>11. TimeoutNotEarly'
  <2>1. ~woke'[s]
    BY <1>0, <1>1 DEF TypeOK
  <2> QED BY <1>0, <1>1, <1>3, <1>7, <2>1 DEF TimeoutNotEarly, TimedOut
<1> QED BY <1>1, <1>6, <1>8, <1>9, <1>10, <1>11, SettledAgain

\* A supervisor at a bound of the instance gives the thread back.
LEMMA BoundSettled ==
  ASSUME Settled, TypeOK', NEW s \in Pid, SupervisorAtBound(s)
  PROVE  Settled'
<1>0. TypeOK /\ Home /\ Quiet /\ Timely /\ now \in Nat
  BY SettledFacts
<1>1. /\ current = s /\ current' = NoProc /\ ready' = Append(ready, s)
      /\ UNCHANGED <<nextId, finished, blocked, target, now, report>>
      /\ UNCHANGED <<mailbox, wait, generation, woke, timers>>
  BY DEF SupervisorAtBound, procVars, waitVars
<1>2. ReadyOnce' /\ OneHome'
  BY <1>0, <1>1, RequeueHome
<1>3. BlockedInWait' /\ NoLostWakeup'
  BY <1>0, <1>1, StaysQuiet
<1>4. TimersOwned' /\ TimeoutNotEarly'
  <2>1. timers' \subseteq timers /\ now' >= now
    BY <1>0, <1>1
  <2>2. \A q \in Pid : generation'[q] = generation[q] /\ wait'[q] = wait[q]
    BY <1>1
  <2>3. \A q \in Pid : woke'[q] => woke[q]
    BY <1>1
  <2> QED BY <1>0, <2>1, <2>2, <2>3, StaysTimely
<1> QED BY <1>1, <1>2, <1>3, <1>4, SettledAgain

\* Every step keeps Scheduler's promises.
LEMMA ActorsSettled ==
  ASSUME ActorsTypeOK, Loops, Settled, [NextActors]_allVars
  PROVE  Settled'
<1>0. TypeOK'
  BY NextActorsTyped DEF ActorsTypeOK
<1>1. CASE SchedStep
  BY <1>1, SchedStepNext, NextSettled
<1>2. CASE UNCHANGED allVars
  BY <1>2, NextSettled DEF allVars
<1>3. ASSUME NEW p \in Pid, Actor(p) \/ TaskDone(p) \/ Server(p) \/ Supervisor(p)
      PROVE  Settled'
  <2>1. CASE \/ StartTask(p) \/ StartServer(p) \/ StartSupervisor(p)
             \/ StartChild(p) \/ Respawn(p)
    <3>1. current = p
      BY <2>1 DEF StartTask, StartServer, StartSupervisor, StartChild, Respawn, InBody, AtChild
    <3>2. PICK w \in {Body, Serving, Starting} : Launch(w)
      BY <2>1 DEF StartTask, StartServer, StartSupervisor, LaunchAs, StartChild, Respawn, RunBlock
    <3>3. UNCHANGED <<finished, mailbox, blocked, generation, woke, timers, driveVars>>
      BY <2>1 DEF StartTask, StartServer, StartSupervisor, LaunchAs, StartChild, Respawn,
                  RunBlock, driveVars
    <3> QED BY <1>0, <3>1, <3>2, <3>3, LaunchSettled
  <2>2. CASE ServeIdle(p)
    BY <1>0, <2>2, IdleSettled DEF Loops
  <2>3. CASE SupervisorSleeps(p)
    BY <1>0, <2>3, SleepSettled, ActorsAssumption DEF SupervisorSleeps
  <2>4. CASE SupervisorAtBound(p)
    BY <1>0, <2>4, BoundSettled
  <2>5. CASE OwnStep(p)
    BY <1>0, <2>5, OwnStepSettled
  <2> QED BY <1>3, <2>1, <2>2, <2>3, <2>4, <2>5, OwnSteps DEF Actor, Server, Supervisor
<1> QED BY <1>1, <1>2, <1>3, Steps

(***************************************************************************)
(* What a step leaves of a process that does not take it.                  *)
(***************************************************************************)

\* Nothing of q that a request, a result or a child is followed by changes,
\* except that its mailbox may grow.
Untouched(q) ==
    /\ wait'[q] = wait[q] /\ role'[q] = role[q] /\ spawner'[q] = spawner[q]
    /\ serving'[q] = serving[q] /\ held'[q] = held[q]
    /\ children'[q] = children[q] /\ cursor'[q] = cursor[q]
    /\ finished'[q] = finished[q]
    /\ \A n : Occurs(n, mailbox[q]) => Occurs(n, mailbox'[q])

\* q is the process that the step of x starts.
Newborn(q, x) ==
    /\ q = nextId /\ nextId' = nextId + 1
    /\ wait'[q] \in {Body, Serving, Starting}
    /\ wait'[q] = Starting => role'[q] = "supervisor"
    /\ spawner'[q] = spawner[q] \/ (spawner'[q] = x /\ role'[q] = "task")
    /\ serving'[q] = serving[q] /\ held'[q] = held[q]
    /\ children'[q] = children[q] /\ cursor'[q] = cursor[q]
    /\ finished'[q] = finished[q] /\ mailbox'[q] = mailbox[q]

OthersKept(x) == \A q \in Pid : q # x => Untouched(q) \/ Newborn(q, x)

\* A step that launches nothing and delivers, if it does, one message.
LEMMA DeliverOthers ==
  ASSUME TypeOK, NEW x \in Pid,
         \/ \A q \in Pid : q # x => mailbox'[q] = mailbox[q]
         \/ \E q, m : m \in Message /\ Deliver(q, m),
         \A q \in Pid : q # x =>
           /\ wait'[q] = wait[q] /\ role'[q] = role[q] /\ spawner'[q] = spawner[q]
           /\ serving'[q] = serving[q] /\ held'[q] = held[q]
           /\ children'[q] = children[q] /\ cursor'[q] = cursor[q]
           /\ finished'[q] = finished[q]
  PROVE  OthersKept(x)
<1>1. \A q \in Pid : q # x => \A n : Occurs(n, mailbox[q]) => Occurs(n, mailbox'[q])
  <2>1. CASE \A q \in Pid : q # x => mailbox'[q] = mailbox[q]
    BY <2>1
  <2>2. ASSUME NEW q, NEW m \in Message, Deliver(q, m)
        PROVE  \A r \in Pid : \A n : Occurs(n, mailbox[r]) => Occurs(n, mailbox'[r])
    BY <2>2, DeliverEffect
  <2> QED BY <2>1, <2>2
<1> QED BY <1>1 DEF OthersKept, Untouched

\* A step that launches a process.
LEMMA LaunchOthers ==
  ASSUME TypeOK, NEW x \in Pid, NEW w \in {Body, Serving, Starting}, Launch(w),
         UNCHANGED <<finished, mailbox, serving, held>>,
         \A q \in Pid : q # nextId => role'[q] = role[q] /\ spawner'[q] = spawner[q],
         w = Starting => role'[nextId] = "supervisor",
         spawner'[nextId] = spawner[nextId] \/ (spawner'[nextId] = x /\ role'[nextId] = "task"),
         \A q \in Pid : q # x => children'[q] = children[q] /\ cursor'[q] = cursor[q]
  PROVE  OthersKept(x) /\ nextId \in Pid /\ wait'[nextId] = w
         /\ \A q \in Pid : q # nextId => wait'[q] = wait[q]
<1>1. nextId \in Pid /\ nextId' = nextId + 1 /\ wait'[nextId] = w
  BY SchedulerAssumption DEF Launch, TypeOK
<1>2. \A q \in Pid : q # nextId => wait'[q] = wait[q]
  BY DEF Launch, TypeOK
<1>3. ASSUME NEW q \in Pid, q # x PROVE Untouched(q) \/ Newborn(q, x)
  <2>1. CASE q = nextId
    BY <1>1, <1>3, <2>1 DEF Newborn
  <2>2. CASE q # nextId
    BY <1>2, <1>3, <2>2 DEF Untouched
  <2> QED BY <2>1, <2>2
<1> QED BY <1>1, <1>2, <1>3 DEF OthersKept

\* Each step is one process's, as the others see it; or nobody's.
Nobodys == (Drive \/ UNCHANGED vars) /\ UNCHANGED actorVars

LEMMA NobodysOthers ==
  ASSUME ActorsTypeOK, Nobodys
  PROVE  \A q \in Pid : Untouched(q) \/ Newborn(q, q)
<1>0. TypeOK
  BY TypeParts
<1> USE DEF procVars, waitVars, queueVars, driveVars
<1>1. UNCHANGED <<role, spawner, serving, held, children, cursor>>
  BY DEF Nobodys, actorVars
<1>2. UNCHANGED <<finished, mailbox>>
  BY DEF Nobodys, Drive, StartLine, EndLine, FireTimeout, Resume, SleepUntil, ReportStuck,
         Advance, SessionOver, vars
<1>3. CASE wait' = wait
  BY <1>1, <1>2, <1>3 DEF Untouched
<1>4. CASE wait' # wait
  <2>1. Launch(Body)
    BY <1>4 DEF Nobodys, Drive, StartLine, EndLine, FireTimeout, Resume, SleepUntil,
                ReportStuck, Advance, SessionOver, vars
  <2>2. nextId \in Pid /\ nextId' = nextId + 1 /\ wait'[nextId] = Body
    BY <1>0, <2>1, SchedulerAssumption DEF Launch, TypeOK
  <2>3. \A q \in Pid : q # nextId => wait'[q] = wait[q]
    BY <1>0, <2>1 DEF Launch, TypeOK
  <2>4. Body # Starting
    BY LoopWaits
  <2>5. ASSUME NEW q \in Pid PROVE Untouched(q) \/ Newborn(q, q)
    <3>1. CASE q = nextId
      BY <1>1, <1>2, <2>2, <2>4, <3>1 DEF Newborn
    <3>2. CASE q # nextId
      BY <1>1, <1>2, <2>3, <3>2 DEF Untouched
    <3> QED BY <3>1, <3>2
  <2> QED BY <2>5
<1> QED BY <1>3, <1>4

\* The steps Scheduler has for a running process.
SchedOwn(p) ==
    \/ Operate(p) /\ UNCHANGED actorVars
    \/ ScanActors(p)
    \/ role[p] = "plain" /\ Finish(p) /\ UNCHANGED actorVars
    \/ role[p] \in {"plain", "server"} /\ Crash(p) /\ UNCHANGED actorVars

LEMMA SchedSteps ==
  ASSUME SchedStep PROVE Nobodys \/ \E p \in Pid : SchedOwn(p)
BY DEF SchedStep, SchedOwn, Nobodys

LEMMA SchedOthers ==
  ASSUME ActorsTypeOK, NEW p \in Pid, SchedOwn(p)
  PROVE  OthersKept(p)
<1>0. TypeOK
  BY TypeParts
<1> USE DEF procVars, waitVars, queueVars, driveVars
<1>1. UNCHANGED <<role, spawner, serving, held, children, cursor>>
  BY DEF SchedOwn, ScanActors, actorVars
<1>2. CASE Spawn(p)
  <2>1. Launch(Body) /\ UNCHANGED <<finished, mailbox>>
    BY <1>2 DEF Spawn
  <2> QED BY <1>0, <1>1, <2>1, LaunchOthers, LoopWaits
<1>3. ASSUME NEW q \in Pid, NEW m \in Sent, Send(p, q, m) PROVE OthersKept(p)
  <2>1. m \in Message /\ Deliver(q, m) /\ UNCHANGED <<finished, wait>>
    BY <1>3, SchedulerAssumption DEF Send
  <2> QED BY <1>0, <1>1, <2>1, DeliverOthers
<1>4. CASE ScanActors(p)
  <2>1. Scan(p)
    BY <1>4 DEF ScanActors
  <2>2. \A q \in Pid : q # p => mailbox'[q] = mailbox[q] /\ wait'[q] = wait[q]
    BY <1>0, <2>1 DEF Scan, ScanHit, ScanMiss, ScanPreempt, TimeoutBranch, TypeOK
  <2>3. finished' = finished
    BY <2>1 DEF Scan, ScanHit, ScanMiss, ScanPreempt, TimeoutBranch
  <2> QED BY <1>0, <1>1, <2>2, <2>3, DeliverOthers
<1>5. CASE Finish(p) \/ Crash(p)
  <2>1. UNCHANGED <<mailbox, wait>> /\ finished' = [finished EXCEPT ![p] = TRUE]
    BY <1>5 DEF Finish, Crash, Exit
  <2>2. \A q \in Pid : q # p => finished'[q] = finished[q]
    BY <1>0, <2>1 DEF TypeOK
  <2> QED BY <1>0, <1>1, <2>1, <2>2, DeliverOthers
<1>6. ASSUME NEW want \in Wants, NEW d \in Delays \cup {Never}, Receive(p, want, d)
      PROVE  OthersKept(p)
  <2>1. UNCHANGED <<mailbox, finished>> /\ \A q \in Pid : q # p => wait'[q] = wait[q]
    BY <1>0, <1>6, BeginWaitOwn DEF Receive
  <2> QED BY <1>0, <1>1, <2>1, DeliverOthers
<1>7. ASSUME UNCHANGED <<mailbox, finished, wait>> PROVE OthersKept(p)
  BY <1>0, <1>1, <1>7, DeliverOthers
<1>8. ASSUME Preempt(p) \/ \E q \in Pid, n \in Names : RegisterName(p, q, n)
      PROVE  OthersKept(p)
  <2>1. UNCHANGED <<mailbox, finished, wait>>
    BY <1>8 DEF Preempt, RegisterName
  <2> QED BY <1>7, <2>1
<1> QED BY <1>2, <1>3, <1>4, <1>5, <1>6, <1>8 DEF SchedOwn, Operate

LEMMA ActorOthers ==
  ASSUME ActorsTypeOK, Loops, NEW p \in Pid, Actor(p) \/ TaskDone(p) \/ Server(p) \/ Supervisor(p)
  PROVE  OthersKept(p)
<1>0. TypeOK /\ ActorsOwn
  BY TypeParts
<1> USE DEF procVars, waitVars, queueVars, driveVars
<1>1. CASE StartTask(p)
  <2>1. /\ Launch(Body) /\ role' = [role EXCEPT ![nextId] = "task"]
        /\ spawner' = [spawner EXCEPT ![nextId] = p]
        /\ UNCHANGED <<finished, mailbox, serving, held, children, cursor>>
    BY <1>1 DEF StartTask, LaunchAs
  <2>2. nextId \in Pid
    BY <1>0, <2>1, SchedulerAssumption DEF Launch, TypeOK
  <2>3. /\ role'[nextId] = "task" /\ spawner'[nextId] = p
        /\ \A q \in Pid : q # nextId => role'[q] = role[q] /\ spawner'[q] = spawner[q]
    BY <1>0, <2>1, <2>2 DEF ActorsOwn
  <2> QED BY <1>0, <2>1, <2>3, LaunchOthers, LoopWaits
<1>2. CASE StartServer(p)
  <2>1. /\ Launch(Serving) /\ role' = [role EXCEPT ![nextId] = "server"]
        /\ UNCHANGED <<finished, mailbox, serving, held, children, cursor, spawner>>
    BY <1>2 DEF StartServer, LaunchAs
  <2>2. nextId \in Pid
    BY <1>0, <2>1, SchedulerAssumption DEF Launch, TypeOK
  <2>3. \A q \in Pid : q # nextId => role'[q] = role[q] /\ spawner'[q] = spawner[q]
    BY <1>0, <2>1, <2>2 DEF ActorsOwn
  <2> QED BY <1>0, <2>1, <2>3, LaunchOthers, LoopWaits
<1>3. CASE StartSupervisor(p)
  <2>1. /\ Launch(Starting) /\ role' = [role EXCEPT ![nextId] = "supervisor"]
        /\ UNCHANGED <<finished, mailbox, serving, held, children, cursor, spawner>>
    BY <1>3 DEF StartSupervisor, LaunchAs
  <2>2. nextId \in Pid
    BY <1>0, <2>1, SchedulerAssumption DEF Launch, TypeOK
  <2>3. /\ role'[nextId] = "supervisor"
        /\ \A q \in Pid : q # nextId => role'[q] = role[q] /\ spawner'[q] = spawner[q]
    BY <1>0, <2>1, <2>2 DEF ActorsOwn
  <2> QED BY <1>0, <2>1, <2>3, LaunchOthers, LoopWaits
<1>4. CASE StartChild(p) \/ Respawn(p)
  <2>1. Launch(Body) /\ UNCHANGED <<finished, mailbox, serving, held, spawner, role>>
    BY <1>4 DEF StartChild, Respawn, RunBlock
  <2>2. \A q \in Pid : q # p => children'[q] = children[q]
    BY <1>0, <1>4 DEF StartChild, Respawn, ActorsOwn
  <2>3. \A q \in Pid : q # p => cursor'[q] = cursor[q]
    BY <1>0, <1>4 DEF StartChild, Respawn, ActorsOwn
  <2> QED BY <1>0, <2>1, <2>2, <2>3, LaunchOthers, LoopWaits
<1>5. CASE OwnStep(p)
  <2>1. \/ \A q \in Pid : q # p => mailbox'[q] = mailbox[q]
        \/ \E q, m : m \in Message /\ Deliver(q, m)
    BY <1>5 DEF OwnStep
  <2>2. \A q \in Pid : q # p => wait'[q] = wait[q] /\ finished'[q] = finished[q]
    BY <1>0, <1>5 DEF OwnStep, TypeOK
  <2>3. CASE UNCHANGED <<role, spawner, serving, held, children, cursor>>
    BY <1>0, <2>1, <2>2, <2>3, DeliverOthers
  <2>4. CASE ServeTake(p) \/ \E request \in Calls : ReplyFrom(p, request)
    <3>1. UNCHANGED <<role, spawner, children, cursor>>
      BY <2>4 DEF ServeTake, ReplyFrom
    <3>2. \A q \in Pid : q # p => serving'[q] = serving[q] /\ held'[q] = held[q]
      BY <1>0, <2>4 DEF ServeTake, ReplyFrom, ActorsOwn
    <3> QED BY <1>0, <2>1, <2>2, <3>1, <3>2, DeliverOthers
  <2>5. ASSUME NEW stop \in BOOLEAN, SlotReply(p, stop) \/ SlotHold(p, stop) \/ SlotDrop(p, stop)
        PROVE  OthersKept(p)
    <3>1. UNCHANGED <<role, spawner, children, cursor>>
      BY <2>5 DEF SlotReply, SlotHold, SlotDrop, AfterSlot
    <3>2. \A q \in Pid : q # p => serving'[q] = serving[q]
      BY <1>0, <2>5 DEF SlotReply, SlotHold, SlotDrop, AfterSlot, ActorsOwn
    <3>3. \A q \in Pid : q # p => held'[q] = held[q]
      BY <1>0, <2>5 DEF SlotReply, SlotHold, SlotDrop, ActorsOwn
    <3> QED BY <1>0, <2>1, <2>2, <3>1, <3>2, <3>3, DeliverOthers
  <2>6. CASE PollAlive(p)
    <3>1. UNCHANGED <<role, spawner, serving, held, children>>
      BY <2>6 DEF PollAlive
    <3>2. \A q \in Pid : q # p => cursor'[q] = cursor[q]
      BY <1>0, <2>6 DEF PollAlive, ActorsOwn
    <3> QED BY <1>0, <2>1, <2>2, <3>1, <3>2, DeliverOthers
  <2>7. CASE \/ \E t \in Pid, d \in Delays \cup {Never} : Await(p, t, d)
             \/ \E s \in Pid : Cast(p, s)
             \/ \E s \in Pid, d \in Delays \cup {Never} : Call(p, s, d)
             \/ TaskDone(p) \/ ServeSkip(p) \/ SleepOver(p) \/ RespawnFails(p)
    <3>1. UNCHANGED <<role, spawner, serving, held, children, cursor>>
      BY <2>7 DEF Await, Cast, Call, TaskDone, ServeSkip, SleepOver, RespawnFails, actorVars
    <3> QED BY <2>3, <3>1
  <2>8. CASE \/ StartTask(p) \/ StartServer(p) \/ StartSupervisor(p)
             \/ StartChild(p) \/ Respawn(p)
    BY <1>1, <1>2, <1>3, <1>4, <2>8
  <2>9. CASE ServeIdle(p) \/ SupervisorAtBound(p)
    <3>1. UNCHANGED <<role, spawner, serving, held, children, cursor>>
      BY <2>9 DEF ServeIdle, SupervisorAtBound, actorVars
    <3> QED BY <2>3, <3>1
  <2>10. CASE SupervisorSleeps(p)
    <3>1. UNCHANGED <<role, spawner, serving, held, children>>
      BY <2>10 DEF SupervisorSleeps
    <3>2. \A q \in Pid : q # p => cursor'[q] = cursor[q]
      BY <1>0, <2>10 DEF SupervisorSleeps, ActorsOwn
    <3> QED BY <1>0, <2>1, <2>2, <3>1, <3>2, DeliverOthers
  <2> QED
    BY <2>4, <2>5, <2>6, <2>7, <2>8, <2>9, <2>10 DEF Actor, Server, Supervisor
<1>6. CASE ServeIdle(p) \/ SupervisorAtBound(p)
  <2>1. UNCHANGED <<finished, mailbox, wait, role, spawner, serving, held, children, cursor>>
    BY <1>6 DEF ServeIdle, SupervisorAtBound, actorVars
  <2> QED BY <1>0, <2>1, DeliverOthers
<1>7. CASE SupervisorSleeps(p)
  <2>1. UNCHANGED <<finished, mailbox, role, spawner, serving, held, children>>
    BY <1>7 DEF SupervisorSleeps, SleepFor
  <2>2. \A q \in Pid : q # p => wait'[q] = wait[q] /\ cursor'[q] = cursor[q]
    BY <1>0, <1>7 DEF SupervisorSleeps, SleepFor, TypeOK, ActorsOwn
  <2> QED BY <1>0, <2>1, <2>2, DeliverOthers
<1> QED
  BY <1>1, <1>2, <1>3, <1>4, <1>5, <1>6, <1>7, OwnSteps DEF Actor, Server, Supervisor

\* What the running process does.
Act(p) == SchedOwn(p) \/ Actor(p) \/ TaskDone(p) \/ Server(p) \/ Supervisor(p)

LEMMA ActOrNobodys ==
  ASSUME [NextActors]_allVars
  PROVE  Nobodys \/ \E p \in Pid : Act(p)
<1>1. UNCHANGED allVars => Nobodys
  BY DEF allVars, Nobodys
<1>2. CASE SchedStep
  BY <1>2, SchedSteps DEF Act
<1> QED BY <1>1, <1>2, Steps DEF Act

LEMMA ActOthers ==
  ASSUME ActorsTypeOK, Loops, NEW p \in Pid, Act(p)
  PROVE  OthersKept(p)
BY SchedOthers, ActorOthers DEF Act

\* It is running, and alive.
LEMMA ActRuns ==
  ASSUME Settled, NEW p \in Pid, Act(p)
  PROVE  current = p /\ Alive(p) /\ p # nextId /\ ~blocked[p]
<1>1. current = p
  <2>1. CASE SchedOwn(p)
    BY <2>1 DEF SchedOwn, Operate, Spawn, Send, Receive, RegisterName, Preempt, ScanActors,
                Scan, ScanHit, ScanMiss, ScanPreempt, TimeoutBranch, Finish, Crash, InBody,
                InGuard, Scanning
  <2>2. CASE Actor(p) \/ TaskDone(p)
    BY <2>2 DEF Actor, StartTask, StartServer, StartSupervisor, Await, Cast, Call, TaskDone,
                InBody, InGuard, Scanning
  <2>3. CASE Server(p)
    BY <2>3 DEF Server, ServeIdle, ServeSkip, ServeTake, SlotReply, SlotHold, SlotDrop,
                ReplyFrom, InServeLoop, InSlot, InBody
  <2>4. CASE Supervisor(p)
    BY <2>4 DEF Supervisor, StartChild, SupervisorSleeps, SleepOver, PollAlive, Respawn,
                RespawnFails, SupervisorAtBound, AtChild
  <2> QED BY <2>1, <2>2, <2>3, <2>4 DEF Act
<1>2. OneHome /\ nextId \in Nat
  BY SettledFacts
<1>3. Alive(p) /\ ~blocked[p]
  BY <1>1, <1>2 DEF OneHome
<1> QED BY <1>1, <1>2, <1>3 DEF Alive, Exists

\* The processes there are, when one may have been added.
LEMMA ExistsGrows ==
  ASSUME nextId \in Nat, nextId' \in {nextId, nextId + 1}
  PROVE  /\ \A q : Exists(q) => Exists(q)'
         /\ \A q : Exists(q)' => Exists(q) \/ q = nextId
<1>1. CASE nextId' = nextId
  BY <1>1 DEF Exists
<1>2. CASE nextId' = nextId + 1
  <2>1. \A q : Exists(q) => Exists(q)'
    BY <1>2 DEF Exists
  <2>2. \A q : q \in 0 .. nextId => q \in 0 .. (nextId - 1) \/ q = nextId
    OBVIOUS
  <2>3. nextId' - 1 = nextId
    BY <1>2
  <2> QED BY <2>1, <2>2, <2>3 DEF Exists
<1> QED BY <1>1, <1>2

\* Processes come one at a time, and the finished ones stay finished.
LEMMA Lifetimes ==
  ASSUME ActorsTypeOK, Loops, Settled, [NextActors]_allVars
  PROVE  /\ nextId \in Nat /\ nextId' \in {nextId, nextId + 1}
         /\ \A q : Exists(q) => Exists(q)'
         /\ \A q \in Pid : Exists(q)' => Exists(q) \/ q = nextId
         /\ \A q \in Pid : Exists(q) /\ ~Alive(q) => ~Alive(q)'
<1>0. TypeOK /\ nextId \in Nat
  BY SettledFacts
<1> USE DEF procVars, waitVars, queueVars, driveVars
<1>1. nextId' \in {nextId, nextId + 1} /\ \A q \in Pid : finished[q] => finished'[q]
  <2>1. CASE Nobodys
    BY <2>1 DEF Nobodys, Drive, StartLine, Launch, EndLine, FireTimeout, Resume, SleepUntil,
                ReportStuck, Advance, SessionOver, vars
  <2>2. ASSUME NEW p \in Pid, OwnStep(p)
        PROVE  nextId' \in {nextId, nextId + 1} /\ \A q \in Pid : finished[q] => finished'[q]
    BY <1>0, <2>2 DEF OwnStep, TypeOK
  <2>3. ASSUME NEW p \in Pid, Finish(p) \/ Crash(p)
        PROVE  nextId' \in {nextId, nextId + 1} /\ \A q \in Pid : finished[q] => finished'[q]
    <3>1. nextId' = nextId /\ finished' = [finished EXCEPT ![p] = TRUE]
      BY <2>3 DEF Finish, Crash, Exit
    <3> QED BY <1>0, <3>1 DEF TypeOK
  <2>4. ASSUME NEW p \in Pid, Operate(p) \/ ScanActors(p)
        PROVE  nextId' \in {nextId, nextId + 1} /\ finished' = finished
    BY <2>4 DEF Operate, Spawn, Launch, Send, Receive, RegisterName, Preempt, ScanActors,
                Scan, ScanHit, ScanMiss, ScanPreempt, TimeoutBranch
  <2>5. ASSUME NEW p \in Pid, \/ StartTask(p) \/ StartServer(p) \/ StartSupervisor(p)
                              \/ StartChild(p) \/ Respawn(p)
        PROVE  nextId' \in {nextId, nextId + 1} /\ finished' = finished
    BY <2>5 DEF StartTask, StartServer, StartSupervisor, LaunchAs, StartChild, Respawn,
                RunBlock, Launch
  <2>6. ASSUME NEW p \in Pid, ServeIdle(p) \/ SupervisorSleeps(p) \/ SupervisorAtBound(p)
        PROVE  nextId' \in {nextId, nextId + 1} /\ finished' = finished
    BY <2>6 DEF ServeIdle, SupervisorSleeps, SleepFor, SupervisorAtBound
  <2>7. ASSUME NEW p \in Pid, SchedOwn(p)
        PROVE  nextId' \in {nextId, nextId + 1} /\ \A q \in Pid : finished[q] => finished'[q]
    BY <2>3, <2>4, <2>7 DEF SchedOwn
  <2>8. ASSUME NEW p \in Pid, Actor(p) \/ TaskDone(p) \/ Server(p) \/ Supervisor(p)
        PROVE  nextId' \in {nextId, nextId + 1} /\ \A q \in Pid : finished[q] => finished'[q]
    BY <2>2, <2>5, <2>6, <2>8, OwnSteps DEF Actor, Server, Supervisor
  <2> QED BY <2>1, <2>7, <2>8, ActOrNobodys DEF Act
<1>2. \A q \in Pid : Exists(q) /\ ~Alive(q) => ~Alive(q)'
  BY <1>1 DEF Alive
<1> QED BY <1>0, <1>1, <1>2, ExistsGrows

(***************************************************************************)
(* Where the loops stand.                                                  *)
(***************************************************************************)
KexKinds == {"body"} \cup ScanKinds

\* A process whose loop does not move.
LEMMA LoopSame ==
  ASSUME NEW p, Loop(p), \A q : Exists(q) => Exists(q)',
         wait'[p] = wait[p], serving'[p] = serving[p], role'[p] = role[p],
         children'[p] = children[p], cursor'[p] = cursor[p]
  PROVE  Loop(p)'
<1>1. \A i \in DOMAIN children'[p] : children'[p][i] \in 0 .. (nextId' - 1)
  BY DEF Loop, Exists
<1> QED BY <1>1 DEF Loop, Exists

\* One that is not in a loop.
LEMMA LoopKex ==
  ASSUME NEW p, Loop(p), \A q : Exists(q) => Exists(q)', Exists(p),
         wait'[p].kind \in KexKinds, children'[p] = children[p]
  PROVE  Loop(p)'
<1>1. \A i \in DOMAIN children'[p] : children'[p][i] \in 0 .. (nextId' - 1)
  BY DEF Loop, Exists
<1> QED BY <1>1 DEF Loop, Exists, KexKinds, ScanKinds

\* One that starts.
LEMMA LoopBorn ==
  ASSUME NEW p \in Pid, NEW x, Loop(p), \A q : Exists(q) => Exists(q)', ~Exists(p),
         nextId \in Nat, Newborn(p, x)
  PROVE  Loop(p)'
<1>1. \A i \in DOMAIN children'[p] : children'[p][i] \in 0 .. (nextId' - 1)
  BY DEF Loop, Newborn, Exists
<1>2. serving'[p] = NoRequest
  BY DEF Loop, Newborn
<1>3. /\ wait'[p] \in {Body, Serving, Starting}
      /\ wait'[p] = Starting => role'[p] = "supervisor"
  BY DEF Newborn
<1>4. p \in 0 .. (nextId' - 1)
  BY DEF Newborn
<1> QED BY <1>1, <1>2, <1>3, <1>4, LoopWaits DEF Loop, Exists

\* Who did not move stands where it stood.
LEMMA OthersLoop ==
  ASSUME Loops, Settled, \A q : Exists(q) => Exists(q)', NEW x \in Pid,
         NEW q \in Pid, Untouched(q) \/ Newborn(q, x)
  PROVE  Loop(q)'
<1>1. CASE Untouched(q)
  BY <1>1, LoopSame DEF Loops, Untouched
<1>2. CASE Newborn(q, x)
  <2>1. nextId \in Nat
    BY SettledFacts
  <2>2. ~Exists(q)
    BY <1>2, <2>1 DEF Newborn, Exists
  <2> QED BY <1>2, <2>1, <2>2, LoopBorn DEF Loops
<1> QED BY <1>1, <1>2

\* A step of the scheduler moves no loop.
LEMMA SchedLoop ==
  ASSUME ActorsTypeOK, Loops, Settled, NEW p \in Pid, SchedOwn(p),
         \A q : Exists(q) => Exists(q)'
  PROVE  Loop(p)'
<1>0. TypeOK /\ Loop(p) /\ Exists(p) /\ p # nextId
  BY ActRuns, SettledFacts DEF Act, Loops, Alive
<1>1. UNCHANGED <<role, serving, children, cursor>>
  BY DEF SchedOwn, ScanActors, actorVars
<1>2. wait'[p] = wait[p] \/ wait'[p].kind \in KexKinds
  <2>1. CASE Spawn(p)
    BY <1>0, <2>1 DEF Spawn, Launch, TypeOK
  <2>2. ASSUME NEW want \in Wants, NEW d \in Delays \cup {Never}, Receive(p, want, d)
        PROVE  wait'[p].kind \in KexKinds
    BY <1>0, <2>2, BeginWaitOwn DEF Receive, KexKinds, ScanKinds
  <2>3. CASE ScanHit(p) \/ TimeoutBranch(p)
    <3>1. wait'[p] = Body
      BY <1>0, <2>3 DEF ScanHit, TimeoutBranch, TypeOK
    <3> QED BY <3>1, LoopWaits DEF KexKinds
  <2>4. CASE ScanMiss(p)
    <3>1. wait[p] \in Wait /\ wait'[p] = [wait[p] EXCEPT !.parked = TRUE]
      BY <1>0, <2>4 DEF ScanMiss, TypeOK
    <3>2. wait'[p].kind = wait[p].kind /\ wait[p].kind \in ScanKinds
      BY <2>4, <3>1 DEF ScanMiss, Scanning, Wait
    <3> QED BY <3>2 DEF KexKinds
  <2>5. CASE \/ Preempt(p) \/ ScanPreempt(p) \/ Finish(p) \/ Crash(p)
             \/ \E q \in Pid, n \in Names : RegisterName(p, q, n)
             \/ \E q \in Pid, m \in Sent : Send(p, q, m)
    BY <2>5 DEF Preempt, ScanPreempt, Finish, Crash, RegisterName, Send, waitVars
  <2> QED
    BY <2>1, <2>2, <2>3, <2>4, <2>5 DEF SchedOwn, Operate, ScanActors, Scan
<1> QED BY <1>0, <1>1, <1>2, LoopSame, LoopKex

\* A step of an actor moves its own loop on.
LEMMA ActorLoop ==
  ASSUME ActorsTypeOK, Loops, Settled, NEW p \in Pid,
         Actor(p) \/ TaskDone(p) \/ Server(p) \/ Supervisor(p),
         \A q : Exists(q) => Exists(q)'
  PROVE  Loop(p)'
<1>0. TypeOK /\ ActorsOwn /\ Loop(p) /\ Exists(p) /\ p # nextId
  BY ActRuns, TypeParts DEF Act, Loops, Alive
<1> USE DEF procVars, waitVars, queueVars, driveVars
<1>1. CASE StartTask(p) \/ StartServer(p) \/ StartSupervisor(p)
  <2>1. UNCHANGED <<serving, children, cursor>>
    BY <1>1 DEF StartTask, StartServer, StartSupervisor
  <2>2. wait'[p] = wait[p] /\ role'[p] = role[p]
    BY <1>0, <1>1 DEF StartTask, StartServer, StartSupervisor, LaunchAs, Launch, TypeOK, ActorsOwn
  <2> QED BY <1>0, <2>1, <2>2, LoopSame
<1>2. ASSUME wait' = wait, UNCHANGED <<serving, role, children, cursor>> PROVE Loop(p)'
  BY <1>0, <1>2, LoopSame
<1>3. ASSUME NEW t \in Pid, NEW d \in Delays \cup {Never}, Await(p, t, d) PROVE Loop(p)'
  <2>1. BeginWait(p, "await", {TaskResult(t)}, d) /\ children' = children
    BY <1>3 DEF Await, actorVars
  <2>2. wait'[p].kind = "await"
    BY <1>0, <2>1, BeginWaitOwn
  <2> QED BY <1>0, <2>1, <2>2, LoopKex DEF KexKinds, ScanKinds
<1>4. ASSUME NEW s \in Pid, NEW d \in Delays \cup {Never}, Call(p, s, d) PROVE Loop(p)'
  <2>1. UNCHANGED <<serving, role, children, cursor>>
    BY <1>4 DEF Call
  <2>2. CASE Alive(s)
    <3>1. BeginWait(p, "call", {ServerReply(nextCall)}, d)
      BY <1>4, <2>2 DEF Call
    <3>2. wait'[p].kind = "call"
      BY <1>0, <3>1, BeginWaitOwn
    <3> QED BY <1>0, <2>1, <3>2, LoopKex DEF KexKinds, ScanKinds
  <2>3. CASE ~Alive(s)
    BY <1>2, <1>4, <2>1, <2>3 DEF Call
  <2> QED BY <2>2, <2>3
<1>5. CASE \/ \E s \in Pid : Cast(p, s)
           \/ TaskDone(p) \/ ServeIdle(p) \/ ServeSkip(p)
           \/ RespawnFails(p) \/ SupervisorAtBound(p)
  <2>1. wait' = wait /\ UNCHANGED <<serving, role, children, cursor>>
    BY <1>5 DEF Cast, TaskDone, ServeIdle, ServeSkip, RespawnFails, SupervisorAtBound, actorVars
  <2> QED BY <1>2, <2>1
<1>6. ASSUME NEW request \in Calls, ReplyFrom(p, request) PROVE Loop(p)'
  <2>1. wait' = wait /\ UNCHANGED <<serving, role, children, cursor>>
    BY <1>6 DEF ReplyFrom
  <2> QED BY <1>2, <2>1
<1>7. CASE ServeTake(p)
  <2>1. wait'[p] = Body /\ children' = children
    BY <1>0, <1>7 DEF ServeTake, TypeOK
  <2> QED BY <1>0, <2>1, LoopKex, LoopWaits DEF KexKinds
<1>8. ASSUME NEW stop \in BOOLEAN, SlotReply(p, stop) \/ SlotHold(p, stop) \/ SlotDrop(p, stop)
      PROVE  Loop(p)'
  <2>1. AfterSlot(p, stop) /\ wait[p].kind = "body"
    BY <1>8 DEF SlotReply, SlotHold, SlotDrop, InSlot, InBody
  <2>2. CASE stop
    <3>1. wait' = wait /\ children' = children
      BY <2>1, <2>2 DEF AfterSlot
    <3> QED BY <1>0, <2>1, <3>1, LoopKex DEF KexKinds
  <2>3. CASE ~stop
    <3>1. wait'[p] = Serving /\ serving'[p] = NoRequest /\ children' = children
      BY <1>0, <2>1, <2>3 DEF AfterSlot, TypeOK, ActorsOwn
    <3>2. \A i \in DOMAIN children'[p] : children'[p][i] \in 0 .. (nextId' - 1)
      BY <1>0, <3>1 DEF Loop, Exists
    <3>3. Exists(p)'
      BY <1>0
    <3> QED BY <3>1, <3>2, <3>3, LoopWaits DEF Loop, Exists
  <2> QED BY <2>2, <2>3
<1>9. CASE SupervisorSleeps(p)
  <2>1. /\ Len(children[p]) = NumWorkers /\ role[p] = "supervisor"
        /\ UNCHANGED <<role, children, serving>> /\ cursor'[p] = 0
    BY <1>0, <1>9 DEF SupervisorSleeps, Loop, ActorsOwn
  <2>2. wait'[p].kind = "sleep"
    BY <1>0, <1>9 DEF SupervisorSleeps, SleepFor, TypeOK
  <2>3. \A i \in DOMAIN children'[p] : children'[p][i] \in 0 .. (nextId' - 1)
    BY <1>0, <2>1 DEF Loop, Exists
  <2>4. Exists(p)'
    BY <1>0
  <2> QED BY <2>1, <2>2, <2>3, <2>4 DEF Loop, Exists
<1>10. CASE SleepOver(p)
  <2>1. /\ Len(children[p]) = NumWorkers /\ role[p] = "supervisor"
        /\ UNCHANGED <<role, children, serving, cursor>> /\ wait'[p] = Polling
    BY <1>0, <1>10 DEF SleepOver, Loop, TypeOK
  <2>2. \A i \in DOMAIN children'[p] : children'[p][i] \in 0 .. (nextId' - 1)
    BY <1>0, <2>1 DEF Loop, Exists
  <2>3. Exists(p)'
    BY <1>0
  <2> QED BY <2>1, <2>2, <2>3, LoopWaits DEF Loop, Exists
<1>11. CASE PollAlive(p)
  <2>1. wait[p].kind = "polling" /\ wait' = wait /\ UNCHANGED <<role, children, serving>>
    BY <1>11 DEF PollAlive, AtChild, vars
  <2>2. \A i \in DOMAIN children'[p] : children'[p][i] \in 0 .. (nextId' - 1)
    BY <1>0, <2>1 DEF Loop, Exists
  <2>3. Exists(p)'
    BY <1>0
  <2> QED BY <1>0, <2>1, <2>2, <2>3 DEF Loop, Exists
<1>12. CASE StartChild(p) \/ Respawn(p)
  <2>1. /\ UNCHANGED <<role, serving>> /\ wait'[p] = wait[p] /\ nextId' = nextId + 1
        /\ nextId \in Pid
    BY <1>0, <1>12, SchedulerAssumption DEF StartChild, Respawn, RunBlock, Launch, TypeOK
  <2>2. nextId \in 0 .. (nextId' - 1)
    BY <2>1
  <2>3. Exists(p)'
    BY <1>0
  <2>4. CASE StartChild(p)
    <3>1. /\ wait[p].kind = "starting" /\ children'[p] = Append(children[p], nextId)
          /\ children[p] \in Seq(Pid)
      BY <1>0, <2>4 DEF StartChild, ActorsOwn
    <3>2. \A i \in DOMAIN children'[p] : (i \in DOMAIN children[p] /\ children'[p][i] = children[p][i])
                                        \/ children'[p][i] = nextId
      BY <2>1, <3>1
    <3>3. \A i \in DOMAIN children'[p] : children'[p][i] \in 0 .. (nextId' - 1)
      BY <1>0, <2>2, <3>2 DEF Loop, Exists
    <3> QED BY <1>0, <2>1, <2>3, <3>1, <3>3 DEF Loop, Exists
  <2>5. CASE Respawn(p)
    <3>1. /\ wait[p].kind = "polling" /\ children[p] \in Seq(Pid) /\ cursor[p] \in Nat
          /\ cursor[p] < NumWorkers /\ Len(children[p]) = NumWorkers
          /\ children' = [children EXCEPT ![p][cursor[p] + 1] = nextId]
      BY <1>0, <2>5, ActorsAssumption DEF Respawn, AtChild, ActorsOwn, Loop
    <3>2. children'[p] = [children[p] EXCEPT ![cursor[p] + 1] = nextId]
      BY <1>0, <3>1 DEF ActorsOwn
    <3>3. /\ DOMAIN children'[p] = DOMAIN children[p] /\ Len(children'[p]) = Len(children[p])
          /\ \A i \in DOMAIN children'[p] : children'[p][i] \in {children[p][i], nextId}
      <4>1. cursor[p] + 1 \in DOMAIN children[p]
        BY <3>1, ActorsAssumption
      <4> QED BY <2>1, <3>1, <3>2, <4>1, ChildReplaced
    <3>4. \A i \in DOMAIN children'[p] : children'[p][i] \in 0 .. (nextId' - 1)
      BY <1>0, <2>2, <3>3 DEF Loop, Exists
    <3> QED BY <1>0, <2>1, <2>3, <3>1, <3>3, <3>4 DEF Loop, Exists
  <2> QED BY <1>12, <2>4, <2>5
<1> QED
  BY <1>1, <1>3, <1>4, <1>5, <1>6, <1>7, <1>8, <1>9, <1>10, <1>11, <1>12
     DEF Actor, Server, Supervisor

LEMMA NextLoops ==
  ASSUME ActorsTypeOK, Loops, Settled, [NextActors]_allVars
  PROVE  Loops'
<1>1. \A q : Exists(q) => Exists(q)'
  BY Lifetimes
<1>2. CASE Nobodys
  <2>1. ASSUME NEW q \in Pid PROVE Loop(q)'
    BY <1>1, <1>2, NobodysOthers, OthersLoop
  <2> QED BY <2>1 DEF Loops
<1>3. ASSUME NEW p \in Pid, Act(p) PROVE Loops'
  <2>1. OthersKept(p)
    BY <1>3, ActOthers
  <2>2. Loop(p)'
    BY <1>1, <1>3, SchedLoop, ActorLoop DEF Act
  <2>3. ASSUME NEW q \in Pid PROVE Loop(q)'
    <3>1. CASE q = p
      BY <2>2, <3>1
    <3>2. CASE q # p
      BY <1>1, <2>1, <3>2, OthersLoop DEF OthersKept
    <3> QED BY <3>1, <3>2
  <2> QED BY <2>3 DEF Loops
<1> QED BY <1>2, <1>3, ActOrNobodys

\* The types, the loops and Scheduler's promises, which all rest on each other.
Core == ActorsTypeOK /\ Loops /\ Settled

LEMMA NextCore ==
  ASSUME Core, [NextActors]_allVars PROVE Core'
BY NextActorsTyped, NextLoops, ActorsSettled DEF Core

LEMMA InitCore == InitActors => Core
<1> SUFFICES ASSUME InitActors PROVE Core
  OBVIOUS
<1>1. TypeOK /\ Settled
  BY InitTypeOK, InitSettled DEF InitActors
<1>2. ActorsOwn
  BY ActorsAssumption DEF InitActors, ActorsOwn
<1>3. ASSUME NEW p \in Pid PROVE Loop(p)
  <2>1. wait[p] = Body /\ serving[p] = NoRequest /\ children[p] = <<>>
    BY <1>3 DEF InitActors, Init
  <2> QED BY <2>1, LoopWaits DEF Loop
<1> QED BY <1>1, <1>2, <1>3, TypeParts DEF Core, Loops

\* The promises of Scheduler hold under tasks, servers and supervisors too, and
\* their loops are where the code leaves them.
THEOREM ActorsKeepTheirPromises == ActorsSpec => []ActorsConsistent
<1>1. Core => ActorsConsistent
  BY SettledConsistent DEF Core, ActorsConsistent
<1>2. Core /\ [NextActors]_allVars => Core'
  BY NextCore
<1> QED BY InitCore, <1>1, <1>2, PTL DEF ActorsSpec

(***************************************************************************)
(* Messages: where they are, and who takes them out.                       *)
(***************************************************************************)

\* A queue without its head has everything else.
LEMMA TailKeeps ==
  ASSUME NEW S, NEW q \in Seq(S), q # <<>>, NEW n, Occurs(n, q), n # Head(q)
  PROVE  Occurs(n, Tail(q))
<1>1. Tail(q) \in Seq(S) /\ Len(Tail(q)) = Len(q) - 1
  OBVIOUS
<1>2. \A i \in 1 .. (Len(q) - 1) : Tail(q)[i] = q[i + 1]
  OBVIOUS
<1>3. PICK i \in DOMAIN q : q[i] = n
  BY DEF Occurs
<1>4. i - 1 \in 1 .. (Len(q) - 1) /\ Tail(q)[i - 1] = n
  BY <1>2, <1>3
<1> QED BY <1>1, <1>4 DEF Occurs

\* The running process takes messages out of its mailbox in two ways: a scan that
\* hits, and a serve loop that takes the head.
LEMMA OwnMailbox ==
  ASSUME Core, NEW x \in Pid, Act(x), NEW n, Occurs(n, mailbox[x])
  PROVE  \/ Occurs(n, mailbox'[x])
         \/ ScanActors(x) /\ wait'[x] = Body
         \/ (ServeSkip(x) \/ ServeTake(x)) /\ n = Head(mailbox[x])
<1>0. TypeOK /\ ActorsOwn /\ ActorsTypeOK /\ Loops
  BY TypeParts DEF Core
<1> USE DEF procVars, waitVars, queueVars, driveVars
<1>1. ASSUME NEW q, NEW m \in Message, Deliver(q, m) PROVE Occurs(n, mailbox'[x])
  BY <1>0, <1>1, DeliverEffect
<1>2. CASE mailbox' = mailbox
  BY <1>2
<1>3. CASE ScanActors(x)
  <2>1. CASE ScanHit(x)
    <3>1. wait'[x] = Body
      BY <1>0, <2>1 DEF ScanHit, TypeOK
    <3> QED BY <1>3, <3>1
  <2>2. CASE ~ScanHit(x)
    <3>1. mailbox' = mailbox
      BY <1>3, <2>2 DEF ScanActors, Scan, ScanMiss, ScanPreempt, TimeoutBranch
    <3> QED BY <1>2, <3>1
  <2> QED BY <2>1, <2>2
<1>4. CASE SchedOwn(x)
  <2>1. ASSUME NEW q \in Pid, NEW m \in Sent, Send(x, q, m) PROVE Occurs(n, mailbox'[x])
    BY <1>1, <2>1, SchedulerAssumption DEF Send
  <2>2. CASE \/ Spawn(x) \/ Preempt(x) \/ Finish(x) \/ Crash(x)
             \/ \E q \in Pid, a \in Names : RegisterName(x, q, a)
             \/ \E want \in Wants, d \in Delays \cup {Never} : Receive(x, want, d)
    BY <1>2, <2>2 DEF Spawn, Preempt, Finish, Crash, RegisterName, Receive
  <2> QED BY <1>3, <1>4, <2>1, <2>2 DEF SchedOwn, Operate
<1>5. CASE ServeSkip(x) \/ ServeTake(x)
  <2>1. /\ mailbox[x] # <<>> /\ mailbox'[x] = Tail(mailbox[x])
        /\ mailbox[x] \in Seq(Message)
    BY <1>0, <1>5 DEF ServeSkip, ServeTake, TypeOK
  <2> QED BY <1>5, <2>1, TailKeeps
<1>6. CASE TaskDone(x)
  BY <1>0, <1>1, <1>6, EnvelopeFacts DEF TaskDone
<1>7. CASE Actor(x)
  <2>1. CASE \/ StartTask(x) \/ StartServer(x) \/ StartSupervisor(x)
             \/ \E t \in Pid, d \in Delays \cup {Never} : Await(x, t, d)
    BY <1>2, <2>1 DEF StartTask, StartServer, StartSupervisor, LaunchAs, Await
  <2>2. ASSUME NEW s \in Pid, Cast(x, s) PROVE Occurs(n, mailbox'[x])
    BY <1>1, <2>2, EnvelopeFacts DEF Cast
  <2>3. ASSUME NEW s \in Pid, NEW d \in Delays \cup {Never}, Call(x, s, d)
        PROVE  Occurs(n, mailbox'[x])
    <3>1. ServerCall(nextCall, x) \in Message
      BY <2>3, EnvelopeFacts, CallFacts DEF Call
    <3> QED BY <1>1, <2>3, <3>1 DEF Call
  <2> QED BY <1>7, <2>1, <2>2, <2>3 DEF Actor
<1>8. CASE Server(x)
  <2>1. ASSUME NEW stop \in BOOLEAN, SlotReply(x, stop) PROVE Occurs(n, mailbox'[x])
    <3>1. ServerReply(serving[x].id) \in Message
      BY <2>1, EnvelopeFacts, CallFacts DEF SlotReply
    <3> QED BY <1>1, <2>1, <3>1 DEF SlotReply
  <2>2. ASSUME NEW request \in Calls, ReplyFrom(x, request) PROVE Occurs(n, mailbox'[x])
    <3>1. ServerReply(request.id) \in Message
      BY EnvelopeFacts, CallFacts
    <3> QED BY <1>1, <2>2, <3>1 DEF ReplyFrom
  <2>3. CASE ServeIdle(x) \/ \E stop \in BOOLEAN : SlotHold(x, stop) \/ SlotDrop(x, stop)
    BY <1>2, <2>3 DEF ServeIdle, SlotHold, SlotDrop
  <2> QED BY <1>5, <1>8, <2>1, <2>2, <2>3 DEF Server
<1>9. CASE Supervisor(x)
  BY <1>2, <1>9 DEF Supervisor, StartChild, SupervisorSleeps, SleepFor, SleepOver, PollAlive,
                    Respawn, RespawnFails, SupervisorAtBound, RunBlock, vars
<1> QED BY <1>4, <1>6, <1>7, <1>8, <1>9 DEF Act

\* What is dropped stays dropped, what is collected stays collected.
LEMMA HistoryGrows ==
  ASSUME [NextActors]_allVars
  PROVE  dropped \subseteq dropped' /\ collected \subseteq collected'
<1>1. CASE Nobodys
  BY <1>1 DEF Nobodys, actorVars
<1>2. ASSUME NEW p \in Pid, SchedOwn(p)
      PROVE  dropped \subseteq dropped' /\ collected \subseteq collected'
  BY <1>2 DEF SchedOwn, ScanActors, actorVars
<1>3. ASSUME NEW p \in Pid, Actor(p) \/ TaskDone(p)
      PROVE  dropped \subseteq dropped' /\ collected \subseteq collected'
  BY <1>3 DEF Actor, TaskDone, StartTask, StartServer, StartSupervisor, Await, Cast, Call,
              actorVars
<1>4. ASSUME NEW p \in Pid, Server(p)
      PROVE  dropped \subseteq dropped' /\ collected \subseteq collected'
  BY <1>4 DEF Server, ServeIdle, ServeSkip, ServeTake, SlotReply, SlotHold, SlotDrop,
              AfterSlot, ReplyFrom, actorVars
<1>5. ASSUME NEW p \in Pid, Supervisor(p)
      PROVE  dropped \subseteq dropped' /\ collected \subseteq collected'
  BY <1>5 DEF Supervisor, StartChild, SupervisorSleeps, SleepOver, PollAlive, Respawn,
              RespawnFails, SupervisorAtBound, RunBlock, actorVars
<1> QED BY <1>1, <1>2, <1>3, <1>4, <1>5, ActOrNobodys DEF Act

(***************************************************************************)
(* Calls: a request is queued, run, kept or dropped until it is answered.  *)
(***************************************************************************)

\* The three places of a request at one process.
RequestAt(c, s) == Occurs(c, mailbox[s]) \/ c \in held[s] \/ c = serving[s]

LEMMA RequestedAt ==
  \A r, p : Requested(r, p) <=>
    ServerCall(r, p) \in dropped \/ \E s \in Pid : RequestAt(ServerCall(r, p), s)
BY DEF Requested, RequestAt

\* A request in a process's mailbox: its own step takes it nowhere but to its slot,
\* or to Kex code.
LEMMA QueuedRequest ==
  ASSUME Core, NEW x \in Pid, Act(x), NEW c \in Calls, Occurs(c, mailbox[x])
  PROVE  Occurs(c, mailbox'[x]) \/ c = serving'[x] \/ c \in dropped'
<1>0. ActorsOwn
  BY TypeParts DEF Core
<1>1. CASE ScanActors(x)
  <2>1. /\ c \in Requests(mailbox[x])
        /\ dropped' = dropped \cup (Requests(mailbox[x]) \ Requests(mailbox'[x]))
    BY <1>1 DEF ScanActors, Requests
  <2> QED BY <2>1 DEF Requests
<1>2. CASE ServeSkip(x) /\ c = Head(mailbox[x])
  BY <1>2 DEF ServeSkip
<1>3. CASE ServeTake(x) /\ c = Head(mailbox[x])
  BY <1>0, <1>3 DEF ServeTake, ActorsOwn
<1> QED BY <1>1, <1>2, <1>3, OwnMailbox

\* The request a slot runs: it is answered, kept or dropped.
LEMMA SlotRequest ==
  ASSUME Core, NEW x \in Pid, Act(x), NEW c \in Calls, c = serving[x]
  PROVE  \/ c = serving'[x] \/ c \in held'[x] \/ c \in dropped'
         \/ Deliver(c.from, ServerReply(c.id))
<1>0. ActorsOwn /\ Loop(x)
  BY TypeParts DEF Core, Loops
<1>1. CASE SchedOwn(x)
  BY <1>1 DEF SchedOwn, ScanActors, actorVars
<1>2. CASE Actor(x) \/ TaskDone(x)
  BY <1>2 DEF Actor, TaskDone, StartTask, StartServer, StartSupervisor, Await, Cast, Call,
              actorVars
<1>3. CASE Supervisor(x)
  BY <1>3 DEF Supervisor, StartChild, SupervisorSleeps, SleepOver, PollAlive, Respawn,
              RespawnFails, SupervisorAtBound, RunBlock, actorVars
<1>4. CASE ServeIdle(x) \/ ServeSkip(x) \/ \E request \in Calls : ReplyFrom(x, request)
  BY <1>4 DEF ServeIdle, ServeSkip, ReplyFrom, actorVars
<1>5. ~ServeTake(x)
  BY <1>0, EnvelopeFacts DEF ServeTake, InServeLoop, Loop
<1>6. ASSUME NEW stop \in BOOLEAN, SlotReply(x, stop)
      PROVE  Deliver(c.from, ServerReply(c.id))
  BY <1>6 DEF SlotReply
<1>7. ASSUME NEW stop \in BOOLEAN, SlotHold(x, stop) PROVE c \in held'[x]
  BY <1>0, <1>7 DEF SlotHold, ActorsOwn
<1>8. ASSUME NEW stop \in BOOLEAN, SlotDrop(x, stop) PROVE c \in dropped'
  BY <1>8 DEF SlotDrop
<1> QED BY <1>1, <1>2, <1>3, <1>4, <1>5, <1>6, <1>7, <1>8 DEF Act, Server

\* A request a server kept: it is answered, or kept on.
LEMMA HeldRequest ==
  ASSUME Core, NEW x \in Pid, Act(x), NEW c \in held[x]
  PROVE  c \in held'[x] \/ Deliver(c.from, ServerReply(c.id))
<1>0. ActorsOwn
  BY TypeParts DEF Core
<1>1. CASE SchedOwn(x)
  BY <1>1 DEF SchedOwn, ScanActors, actorVars
<1>2. CASE Actor(x) \/ TaskDone(x)
  BY <1>2 DEF Actor, TaskDone, StartTask, StartServer, StartSupervisor, Await, Cast, Call,
              actorVars
<1>3. CASE Supervisor(x)
  BY <1>3 DEF Supervisor, StartChild, SupervisorSleeps, SleepOver, PollAlive, Respawn,
              RespawnFails, SupervisorAtBound, RunBlock, actorVars
<1>4. CASE \/ ServeIdle(x) \/ ServeSkip(x) \/ ServeTake(x)
           \/ \E stop \in BOOLEAN : SlotReply(x, stop) \/ SlotDrop(x, stop)
  BY <1>4 DEF ServeIdle, ServeSkip, ServeTake, SlotReply, SlotDrop, actorVars
<1>5. ASSUME NEW request \in Calls, ReplyFrom(x, request)
      PROVE  c \in held'[x] \/ Deliver(c.from, ServerReply(c.id))
  <2>1. held'[x] = held[x] \ {request}
    BY <1>0, <1>5 DEF ReplyFrom, ActorsOwn
  <2> QED BY <1>5, <2>1 DEF ReplyFrom
<1>6. ASSUME NEW stop \in BOOLEAN, SlotHold(x, stop) PROVE c \in held'[x]
  BY <1>0, <1>6 DEF SlotHold, ActorsOwn
<1> QED BY <1>1, <1>2, <1>3, <1>4, <1>5, <1>6 DEF Act, Server

\* A request is where it was, or further on, or its caller has the answer.
LEMMA RequestKept ==
  ASSUME Core, [NextActors]_allVars, NEW p \in Pid, NEW r \in Ref, Requested(r, p), Alive(p)
  PROVE  Requested(r, p)' \/ Occurs(ServerReply(r), mailbox'[p])
<1> DEFINE c == ServerCall(r, p)
<1>0. /\ c \in Calls /\ c.id = r /\ c.from = p /\ ServerReply(r) \in Message
      /\ TypeOK /\ ActorsOwn /\ ActorsTypeOK /\ Loops
  BY CallFacts, EnvelopeFacts, TypeParts DEF Core
<1> HIDE DEF c
<1>1. ASSUME c \in dropped' \/ \E s \in Pid : Occurs(c, mailbox'[s]) \/ c \in held'[s] \/ c = serving'[s]
      PROVE  Requested(r, p)'
  BY <1>1 DEF Requested, c, ServerCall, Envelope
<1>2. CASE c \in dropped
  BY <1>1, <1>2, HistoryGrows
<1>3. ASSUME NEW s \in Pid, RequestAt(c, s)
      PROVE  Requested(r, p)' \/ Occurs(ServerReply(r), mailbox'[p])
  <2>1. ASSUME NEW x, Untouched(s) \/ Newborn(s, x) PROVE Requested(r, p)'
    <3>1. Occurs(c, mailbox'[s]) \/ c \in held'[s] \/ c = serving'[s]
      BY <1>3, <2>1 DEF RequestAt, Untouched, Newborn
    <3> QED BY <1>1, <3>1
  <2>2. CASE Nobodys
    BY <1>0, <2>1, <2>2, NobodysOthers
  <2>3. ASSUME NEW x \in Pid, Act(x)
        PROVE  Requested(r, p)' \/ Occurs(ServerReply(r), mailbox'[p])
    <3>1. CASE s # x
      BY <1>0, <2>1, <2>3, <3>1, ActOthers DEF OthersKept
    <3>2. CASE s = x
      <4>1. CASE Deliver(c.from, ServerReply(c.id))
        <5>1. Deliver(p, ServerReply(r))
          BY <1>0, <4>1
        <5> QED BY <1>0, <5>1, DeliverEffect
      <4>2. CASE ~Deliver(c.from, ServerReply(c.id))
        <5>1. \/ Occurs(c, mailbox'[x]) \/ c \in held'[x] \/ c = serving'[x] \/ c \in dropped'
          BY <1>0, <1>3, <2>3, <3>2, <4>2, QueuedRequest, SlotRequest, HeldRequest DEF RequestAt
        <5> QED BY <1>1, <5>1
      <4> QED BY <4>1, <4>2
    <3> QED BY <3>1, <3>2
  <2> QED BY <2>2, <2>3, ActOrNobodys
<1> QED BY <1>2, <1>3, RequestedAt DEF c

\* A caller that waits does so since its call, and nothing but the end of its wait
\* takes messages from it.
LEMMA CallWait ==
  ASSUME Core, [NextActors]_allVars, NEW p \in Pid, Alive(p)', wait'[p].kind = "call"
  PROVE  \/ /\ Alive(p) /\ wait[p].kind = "call" /\ wait'[p].want = wait[p].want
            /\ \A n : Occurs(n, mailbox[p]) => Occurs(n, mailbox'[p])
         \/ \E s \in Pid, d \in Delays \cup {Never} : Call(p, s, d) /\ Alive(s)
<1>0. TypeOK /\ ActorsOwn /\ ActorsTypeOK /\ Loops /\ Settled /\ Loop(p)
  BY TypeParts DEF Core, Loops
<1> USE DEF procVars, waitVars, queueVars, driveVars
<1>1. ASSUME NEW x, Untouched(p) \/ Newborn(p, x)
      PROVE  /\ Alive(p) /\ wait[p].kind = "call" /\ wait'[p].want = wait[p].want
             /\ \A n : Occurs(n, mailbox[p]) => Occurs(n, mailbox'[p])
  <2>1. ~Newborn(p, x)
    BY LoopWaits DEF Newborn
  <2>2. Untouched(p)
    BY <1>1, <2>1
  <2>3. Exists(p)
    BY <1>0, <2>2 DEF Untouched, Loop
  <2>4. Alive(p)
    BY <1>0, <2>3, Lifetimes
  <2> QED BY <2>2, <2>4 DEF Untouched
<1>2. CASE Nobodys
  BY <1>0, <1>1, <1>2, NobodysOthers
<1>3. ASSUME NEW x \in Pid, Act(x), p # x
      PROVE  /\ Alive(p) /\ wait[p].kind = "call" /\ wait'[p].want = wait[p].want
             /\ \A n : Occurs(n, mailbox[p]) => Occurs(n, mailbox'[p])
  BY <1>0, <1>1, <1>3, ActOthers DEF OthersKept
<1>4. ASSUME Act(p)
      PROVE  \/ /\ Alive(p) /\ wait[p].kind = "call" /\ wait'[p].want = wait[p].want
                /\ \A n : Occurs(n, mailbox[p]) => Occurs(n, mailbox'[p])
             \/ \E s \in Pid, d \in Delays \cup {Never} : Call(p, s, d) /\ Alive(s)
  <2>0. Alive(p) /\ p # nextId
    BY <1>0, <1>4, ActRuns
  <2>1. ASSUME wait'[p].kind = wait[p].kind, wait'[p].want = wait[p].want
        PROVE  /\ Alive(p) /\ wait[p].kind = "call" /\ wait'[p].want = wait[p].want
               /\ \A n : Occurs(n, mailbox[p]) => Occurs(n, mailbox'[p])
    <3>1. wait[p].kind = "call" /\ wait'[p] # Body
      BY <2>1, LoopWaits
    <3>2. ~ServeSkip(p) /\ ~ServeTake(p)
      BY <3>1 DEF ServeSkip, ServeTake, InServeLoop
    <3>3. \A n : Occurs(n, mailbox[p]) => Occurs(n, mailbox'[p])
      BY <1>4, <3>1, <3>2, OwnMailbox
    <3> QED BY <2>0, <2>1, <3>1, <3>3
  <2>2. CASE SchedOwn(p)
    <3>1. CASE Spawn(p)
      BY <1>0, <2>0, <2>1, <3>1 DEF Spawn, Launch, TypeOK
    <3>2. ASSUME NEW want \in Wants, NEW d \in Delays \cup {Never}, Receive(p, want, d)
          PROVE  FALSE
      BY <1>0, <3>2, BeginWaitOwn DEF Receive
    <3>3. CASE ScanHit(p) \/ TimeoutBranch(p)
      <4>1. wait'[p] = Body
        BY <1>0, <3>3 DEF ScanHit, TimeoutBranch, TypeOK
      <4> QED BY <4>1, LoopWaits
    <3>4. CASE ScanMiss(p)
      <4>1. wait[p] \in Wait /\ wait'[p] = [wait[p] EXCEPT !.parked = TRUE]
        BY <1>0, <3>4 DEF ScanMiss, TypeOK
      <4>2. wait'[p].kind = wait[p].kind /\ wait'[p].want = wait[p].want
        BY <4>1 DEF Wait
      <4> QED BY <2>1, <4>2
    <3>5. CASE \/ Preempt(p) \/ ScanPreempt(p) \/ Finish(p) \/ Crash(p)
               \/ \E q \in Pid, n \in Names : RegisterName(p, q, n)
               \/ \E q \in Pid, m \in Sent : Send(p, q, m)
      <4>1. wait' = wait
        BY <3>5 DEF Preempt, ScanPreempt, Finish, Crash, RegisterName, Send
      <4> QED BY <2>1, <4>1
    <3> QED BY <2>2, <3>1, <3>2, <3>3, <3>4, <3>5 DEF SchedOwn, Operate, ScanActors, Scan
  <2>3. CASE Actor(p) \/ TaskDone(p)
    <3>1. CASE StartTask(p) \/ StartServer(p) \/ StartSupervisor(p)
      <4>1. wait'[p] = wait[p]
        BY <1>0, <2>0, <3>1
           DEF StartTask, StartServer, StartSupervisor, LaunchAs, Launch, TypeOK
      <4> QED BY <2>1, <4>1
    <3>2. ASSUME NEW t \in Pid, NEW d \in Delays \cup {Never}, Await(p, t, d) PROVE FALSE
      BY <1>0, <3>2, BeginWaitOwn DEF Await
    <3>3. CASE TaskDone(p) \/ \E s \in Pid : Cast(p, s)
      <4>1. wait' = wait
        BY <3>3 DEF TaskDone, Cast
      <4> QED BY <2>1, <4>1
    <3>4. ASSUME NEW s \in Pid, NEW d \in Delays \cup {Never}, Call(p, s, d), ~Alive(s)
          PROVE  wait' = wait
      BY <3>4 DEF Call
    <3> QED BY <2>1, <2>3, <3>1, <3>2, <3>3, <3>4 DEF Actor
  <2>4. CASE Server(p)
    <3>1. CASE ServeTake(p) \/ \E stop \in BOOLEAN : SlotReply(p, stop) \/ SlotHold(p, stop) \/ SlotDrop(p, stop)
      <4>1. wait'[p] \in {Body, Serving} \/ (wait[p].kind = "body" /\ wait' = wait)
        BY <1>0, <3>1 DEF ServeTake, SlotReply, SlotHold, SlotDrop, AfterSlot, InSlot, InBody, TypeOK
      <4> QED BY <4>1, LoopWaits
    <3>2. CASE ServeIdle(p) \/ ServeSkip(p) \/ \E request \in Calls : ReplyFrom(p, request)
      <4>1. wait' = wait
        BY <3>2 DEF ServeIdle, ServeSkip, ReplyFrom
      <4> QED BY <2>1, <4>1
    <3> QED BY <2>4, <3>1, <3>2 DEF Server
  <2>5. CASE Supervisor(p)
    <3>1. CASE SupervisorSleeps(p)
      BY <1>0, <3>1 DEF SupervisorSleeps, SleepFor, TypeOK
    <3>2. CASE SleepOver(p)
      <4>1. wait'[p] = Polling
        BY <1>0, <3>2 DEF SleepOver, TypeOK
      <4> QED BY <4>1, LoopWaits
    <3>3. CASE StartChild(p) \/ Respawn(p)
      <4>1. wait'[p] = wait[p]
        BY <1>0, <2>0, <3>3 DEF StartChild, Respawn, RunBlock, Launch, TypeOK
      <4> QED BY <2>1, <4>1
    <3>4. CASE PollAlive(p) \/ RespawnFails(p) \/ SupervisorAtBound(p)
      <4>1. wait' = wait
        BY <3>4 DEF PollAlive, RespawnFails, SupervisorAtBound, vars
      <4> QED BY <2>1, <4>1
    <3> QED BY <2>5, <3>1, <3>2, <3>3, <3>4 DEF Supervisor
  <2> QED BY <1>4, <2>2, <2>3, <2>4, <2>5 DEF Act
<1> QED BY <1>2, <1>3, <1>4, ActOrNobodys

\* No request a caller waits for is lost on the way.
LEMMA NextCallsTracked ==
  ASSUME Core, CallsTracked, [NextActors]_allVars
  PROVE  CallsTracked'
<1> SUFFICES ASSUME NEW p \in Pid, Alive(p)', wait'[p].kind = "call",
                    NEW r \in Ref, ServerReply(r) \in wait'[p].want
             PROVE  Requested(r, p)' \/ Occurs(ServerReply(r), mailbox'[p])
  BY DEF CallsTracked, ServerReply, Envelope
<1>0. TypeOK
  BY TypeParts DEF Core
<1>1. ASSUME Alive(p), wait[p].kind = "call", wait'[p].want = wait[p].want,
             \A n : Occurs(n, mailbox[p]) => Occurs(n, mailbox'[p])
      PROVE  Requested(r, p)' \/ Occurs(ServerReply(r), mailbox'[p])
  <2>1. Requested(r, p) \/ Occurs(ServerReply(r), mailbox[p])
    BY <1>1 DEF CallsTracked
  <2> QED BY <1>1, <2>1, RequestKept
<1>2. ASSUME NEW s \in Pid, NEW d \in Delays \cup {Never}, Call(p, s, d), Alive(s)
      PROVE  Requested(r, p)'
  <2>1. /\ Deliver(s, ServerCall(nextCall, p)) /\ nextCall \in Ref
        /\ BeginWait(p, "call", {ServerReply(nextCall)}, d)
    BY <1>2 DEF Call
  <2>2. ServerReply(r) = ServerReply(nextCall)
    BY <1>0, <2>1, BeginWaitOwn
  <2>3. r = nextCall
    BY <2>2 DEF ServerReply, Envelope
  <2>4. ServerCall(nextCall, p) \in Message
    BY <2>1, CallFacts, EnvelopeFacts
  <2>5. Occurs(ServerCall(nextCall, p), mailbox'[s])
    BY <1>0, <1>2, <2>1, <2>4, DeliverEffect
  <2>6. Occurs(ServerCall(r, p), mailbox'[s])
    BY <2>3, <2>5
  <2> QED BY <2>6 DEF Requested, ServerCall, Envelope
<1> QED BY <1>1, <1>2, CallWait

\* A request a blocked caller waits for is somewhere: queued, run, kept or dropped.
THEOREM EveryCallIsAccountedFor == ActorsSpec => []CallAccounted
<1> DEFINE Inv == Core /\ CallsTracked
<1>1. InitActors => Inv
  <2>1. InitActors => CallsTracked
    BY LoopWaits DEF InitActors, Init, CallsTracked
  <2> QED BY <2>1, InitCore
<1>2. Inv /\ [NextActors]_allVars => Inv'
  BY NextCore, NextCallsTracked
<1>3. Inv => CallAccounted
  <2> SUFFICES ASSUME Core, CallsTracked, NEW p \in Pid, blocked[p], wait[p].kind = "call",
                      NEW r \in Ref, ServerReply(r) \in wait[p].want
               PROVE  Requested(r, p)
    BY DEF CallAccounted
  <2>1. OneHome /\ NoLostWakeup
    BY SettledFacts DEF Core
  <2>2. Alive(p) /\ Matching(p) = {}
    BY <2>1 DEF OneHome, NoLostWakeup
  <2>3. ~Occurs(ServerReply(r), mailbox[p])
    BY <2>2 DEF Matching, Occurs
  <2> QED BY <2>2, <2>3 DEF CallsTracked
<1> QED BY <1>1, <1>2, <1>3, PTL DEF ActorsSpec

(***************************************************************************)
(* Results: a task's outcome reaches its spawner's mailbox.                *)
(***************************************************************************)

\* Only the end of a task's block ends a task.
LEMMA TaskEnds ==
  ASSUME Core, [NextActors]_allVars, NEW t \in Pid, Alive(t), ~Alive(t)', role[t] = "task"
  PROVE  TaskDone(t)
<1>0. TypeOK /\ ActorsOwn /\ ActorsTypeOK /\ Loops /\ Settled /\ Loop(t)
  BY TypeParts DEF Core, Loops
<1>1. ~finished[t] /\ finished'[t]
  BY <1>0, Lifetimes DEF Alive
<1>2. ~(Untouched(t) \/ \E x : Newborn(t, x))
  BY <1>1 DEF Untouched, Newborn
<1>3. ~Nobodys
  BY <1>0, <1>2, NobodysOthers
<1>4. Act(t)
  BY <1>0, <1>2, <1>3, ActOthers, ActOrNobodys DEF OthersKept
<1>5. finished' # finished
  BY <1>1
<1> USE DEF procVars
<1>6. ~SchedOwn(t)
  <2>1. ~Operate(t)
    BY <1>5 DEF Operate, Spawn, Send, Receive, RegisterName, Preempt
  <2>2. ~ScanActors(t)
    BY <1>5 DEF ScanActors, Scan, ScanHit, ScanMiss, ScanPreempt, TimeoutBranch
  <2> QED BY <2>1, <2>2 DEF SchedOwn
<1>7. ~Actor(t)
  BY <1>5 DEF Actor, StartTask, StartServer, StartSupervisor, LaunchAs, Await, Cast, Call
<1>8. ~Server(t)
  BY <1>5 DEF Server, ServeIdle, ServeSkip, ServeTake, SlotReply, SlotHold, SlotDrop, InSlot,
              ReplyFrom
<1>9. ~Supervisor(t)
  <2>1. ~RespawnFails(t)
    BY <1>0 DEF RespawnFails, AtChild, Loop
  <2> QED BY <1>5, <2>1 DEF Supervisor, StartChild, RunBlock, SupervisorSleeps, SleepFor,
                            SleepOver, PollAlive, Respawn, SupervisorAtBound, vars
<1> QED BY <1>4, <1>6, <1>7, <1>8, <1>9 DEF Act

\* A result in a mailbox stays there until it is collected.
LEMMA ResultKept ==
  ASSUME Core, [NextActors]_allVars, NEW q \in Pid, NEW t \in Pid, Occurs(TaskResult(t), mailbox[q])
  PROVE  Occurs(TaskResult(t), mailbox'[q]) \/ t \in collected'
<1>0. TypeOK /\ ActorsTypeOK /\ Loops
  BY TypeParts DEF Core
<1>1. ASSUME NEW x, Untouched(q) \/ Newborn(q, x) PROVE Occurs(TaskResult(t), mailbox'[q])
  BY <1>1 DEF Untouched, Newborn
<1>2. CASE Nobodys
  BY <1>0, <1>1, <1>2, NobodysOthers
<1>3. ASSUME NEW x \in Pid, Act(x), q # x PROVE Occurs(TaskResult(t), mailbox'[q])
  BY <1>0, <1>1, <1>3, ActOthers DEF OthersKept
<1>4. ASSUME Act(q) PROVE Occurs(TaskResult(t), mailbox'[q]) \/ t \in collected'
  <2>1. t \in Results(mailbox[q])
    BY DEF Results, Occurs
  <2>2. CASE ScanActors(q)
    <3>1. collected' = collected \cup (Results(mailbox[q]) \ Results(mailbox'[q]))
      BY <2>2 DEF ScanActors
    <3> QED BY <2>1, <3>1 DEF Results, Occurs
  <2>3. CASE ServeSkip(q)
    <3>1. /\ collected' = collected \cup (Results(mailbox[q]) \ Results(Tail(mailbox[q])))
          /\ mailbox'[q] = Tail(mailbox[q])
      BY <1>0, <2>3 DEF ServeSkip, TypeOK
    <3> QED BY <2>1, <3>1 DEF Results, Occurs
  <2>4. CASE ServeTake(q)
    <3>1. TaskResult(t) # Head(mailbox[q])
      BY <2>4, EnvelopeFacts DEF ServeTake
    <3>2. ~ScanActors(q)
      BY <2>4 DEF ScanActors, Scan, ScanHit, ScanMiss, ScanPreempt, TimeoutBranch, Scanning,
                  InGuard, ScanKinds, ServeTake, InServeLoop
    <3> QED BY <1>4, <3>1, <3>2, OwnMailbox
  <2> QED BY <1>4, <2>2, <2>3, <2>4, OwnMailbox
<1> QED BY <1>2, <1>3, <1>4, ActOrNobodys

\* Who starts a task, and what that task is.
LEMMA SpawnerKept ==
  ASSUME Core, [NextActors]_allVars, NEW t \in Pid, spawner'[t] # NoProc
  PROVE  \/ spawner'[t] = spawner[t] /\ (Exists(t) => role'[t] = role[t])
         \/ /\ t = nextId /\ Alive(t)' /\ role'[t] = "task"
            /\ spawner'[t] \in Pid /\ Exists(spawner'[t])
<1>0. TypeOK /\ ActorsOwn /\ ActorsTypeOK /\ Loops /\ Settled
  BY TypeParts DEF Core
<1>1. nextId \in Nat /\ Unborn
  BY <1>0, SettledFacts
<1>2. ASSUME NEW x \in Pid, Newborn(t, x), spawner'[t] # spawner[t]
      PROVE  /\ t = nextId /\ Alive(t)' /\ role'[t] = "task" /\ spawner'[t] = x
  <2>1. ~finished[t] /\ t \in 0 .. (nextId' - 1)
    BY <1>1, <1>2 DEF Newborn, Unborn
  <2> QED BY <1>2, <2>1 DEF Newborn, Alive, Exists
<1>3. ASSUME NEW x \in Pid, Untouched(t) \/ Newborn(t, x)
      PROVE  \/ spawner'[t] = spawner[t] /\ (Exists(t) => role'[t] = role[t])
             \/ t = nextId /\ Alive(t)' /\ role'[t] = "task" /\ spawner'[t] = x
  <2>1. Newborn(t, x) => ~Exists(t)
    BY <1>1 DEF Newborn, Exists
  <2> QED BY <1>2, <1>3, <2>1 DEF Untouched
<1>4. CASE Nobodys
  BY <1>4 DEF Nobodys, actorVars
<1>5. ASSUME NEW x \in Pid, Act(x)
      PROVE  \/ spawner'[t] = spawner[t] /\ (Exists(t) => role'[t] = role[t])
             \/ /\ t = nextId /\ Alive(t)' /\ role'[t] = "task"
                /\ spawner'[t] \in Pid /\ Exists(spawner'[t])
  <2>1. Alive(x) /\ x # nextId
    BY <1>0, <1>5, ActRuns
  <2>2. CASE t # x
    BY <1>0, <1>3, <1>5, <2>1, <2>2, ActOthers DEF OthersKept, Alive
  <2>3. CASE t = x
    <3>1. CASE SchedOwn(x)
      BY <2>3, <3>1 DEF SchedOwn, ScanActors, actorVars
    <3>2. CASE Actor(x) \/ TaskDone(x)
      BY <1>0, <2>1, <2>3, <3>2
         DEF Actor, TaskDone, StartTask, StartServer, StartSupervisor, LaunchAs, Await, Cast,
             Call, actorVars, ActorsOwn
    <3>3. CASE Server(x)
      BY <2>3, <3>3 DEF Server, ServeIdle, ServeSkip, ServeTake, SlotReply, SlotHold,
                        SlotDrop, AfterSlot, ReplyFrom, actorVars
    <3>4. CASE Supervisor(x)
      BY <2>3, <3>4 DEF Supervisor, StartChild, SupervisorSleeps, SleepOver, PollAlive,
                        Respawn, RespawnFails, SupervisorAtBound, RunBlock, actorVars
    <3> QED BY <1>5, <3>1, <3>2, <3>3, <3>4 DEF Act
  <2> QED BY <2>2, <2>3
<1> QED BY <1>4, <1>5, ActOrNobodys

\* A task that ended has left its result with a spawner that lives.
LEMMA NextResultsTracked ==
  ASSUME Core, ResultsTracked, [NextActors]_allVars
  PROVE  ResultsTracked'
<1>0. TypeOK /\ ActorsOwn /\ ActorsTypeOK /\ Loops /\ Settled
  BY TypeParts DEF Core
<1> SUFFICES ASSUME NEW t \in Pid, spawner'[t] # NoProc
             PROVE  /\ Exists(t)' /\ role'[t] = "task" /\ spawner'[t] \in 0 .. (nextId' - 1)
                    /\ \/ Alive(t)' \/ t \in collected'
                       \/ ~finished'[spawner'[t]] => Occurs(TaskResult(t), mailbox'[spawner'[t]])
  BY DEF ResultsTracked, Alive, Exists, TaskResult, Envelope
<1>1. ASSUME t = nextId, Alive(t)', role'[t] = "task", Exists(spawner'[t]), spawner'[t] \in Pid
      PROVE  Exists(t)' /\ spawner'[t] \in 0 .. (nextId' - 1)
  <2>1. PICK x \in Pid : x = spawner'[t]
    BY <1>1
  <2>2. Exists(x)'
    BY <1>0, <1>1, <2>1, Lifetimes
  <2> QED BY <1>1, <2>1, <2>2 DEF Alive, Exists
<1>2. ASSUME spawner'[t] = spawner[t], Exists(t) => role'[t] = role[t]
      PROVE  /\ Exists(t)' /\ role'[t] = "task" /\ spawner'[t] \in 0 .. (nextId' - 1)
             /\ \/ Alive(t)' \/ t \in collected'
                \/ ~finished'[spawner'[t]] => Occurs(TaskResult(t), mailbox'[spawner'[t]])
  <2>1. PICK q \in Pid : q = spawner[t] /\ q = spawner'[t]
    BY <1>0, <1>2 DEF ActorsOwn
  <2>2. /\ Exists(t) /\ role[t] = "task" /\ Exists(q)
        /\ Alive(t) \/ t \in collected \/ (Alive(q) => Occurs(TaskResult(t), mailbox[q]))
    BY <1>2, <2>1 DEF ResultsTracked
  <2>3. Exists(t)' /\ Exists(q)'
    BY <1>0, <2>2, Lifetimes
  <2>4. t \in collected => t \in collected'
    BY HistoryGrows
  <2>5. Alive(q)' => Alive(q)
    BY <1>0, <2>2, Lifetimes
  <2>6. ASSUME Alive(t), ~Alive(t)', Alive(q)' PROVE Occurs(TaskResult(t), mailbox'[q])
    <3>1. TaskDone(t)
      BY <2>2, <2>6, TaskEnds
    <3>2. Deliver(q, TaskResult(t)) /\ TaskResult(t) \in Message
      BY <2>1, <3>1, EnvelopeFacts DEF TaskDone
    <3> QED BY <1>0, <2>5, <2>6, <3>2, DeliverEffect
  <2>7. Occurs(TaskResult(t), mailbox[q]) =>
          Occurs(TaskResult(t), mailbox'[q]) \/ t \in collected'
    BY ResultKept
  <2>8. \/ Alive(t)' \/ t \in collected'
        \/ Alive(q)' => Occurs(TaskResult(t), mailbox'[q])
    BY <2>2, <2>4, <2>5, <2>6, <2>7
  <2> QED BY <1>2, <2>1, <2>2, <2>3, <2>8 DEF Alive, Exists
<1> QED BY <1>1, <1>2, SpawnerKept

\* Who awaits a task it started waits for one that runs, or for a result that has
\* already been taken out of its mailbox.
THEOREM NoAwaitIsStranded == ActorsSpec => []AwaitNotStranded
<1> DEFINE Inv == Core /\ ResultsTracked
<1>1. InitActors => Inv
  <2>1. InitActors => ResultsTracked
    BY DEF InitActors, ResultsTracked
  <2> QED BY <2>1, InitCore
<1>2. Inv /\ [NextActors]_allVars => Inv'
  BY NextCore, NextResultsTracked
<1>3. Inv => AwaitNotStranded
  <2> SUFFICES ASSUME Core, ResultsTracked, NEW p \in Pid, NEW t \in Pid, blocked[p],
                      TaskResult(t) \in wait[p].want, spawner[t] = p
               PROVE  Alive(t) \/ t \in collected
    BY DEF AwaitNotStranded
  <2>1. OneHome /\ NoLostWakeup
    BY SettledFacts DEF Core
  <2>2. Alive(p) /\ Matching(p) = {}
    BY <2>1 DEF OneHome, NoLostWakeup
  <2>3. ~Occurs(TaskResult(t), mailbox[p])
    BY <2>2 DEF Matching, Occurs
  <2> QED BY <2>2, <2>3 DEF ResultsTracked
<1> QED BY <1>1, <1>2, <1>3, PTL DEF ActorsSpec

(***************************************************************************)
(* Children: the live one of a block is the one that is polled.            *)
(***************************************************************************)

\* Every step but a worker block's leaves the children and their history alone.
LEMMA ChildrenSame ==
  ASSUME [NextActors]_allVars, \A s \in Pid : ~StartChild(s) /\ ~Respawn(s)
  PROVE  UNCHANGED <<children, started>>
<1>1. CASE Nobodys
  BY <1>1 DEF Nobodys, actorVars
<1>2. ASSUME NEW p \in Pid, SchedOwn(p) PROVE UNCHANGED <<children, started>>
  BY <1>2 DEF SchedOwn, ScanActors, actorVars
<1>3. ASSUME NEW p \in Pid, Actor(p) \/ TaskDone(p) PROVE UNCHANGED <<children, started>>
  BY <1>3 DEF Actor, TaskDone, StartTask, StartServer, StartSupervisor, Await, Cast, Call,
              actorVars
<1>4. ASSUME NEW p \in Pid, Server(p) PROVE UNCHANGED <<children, started>>
  BY <1>4 DEF Server, ServeIdle, ServeSkip, ServeTake, SlotReply, SlotHold, SlotDrop,
              AfterSlot, ReplyFrom, actorVars
<1>5. ASSUME NEW p \in Pid, Supervisor(p) PROVE UNCHANGED <<children, started>>
  BY <1>5 DEF Supervisor, SupervisorSleeps, SleepOver, PollAlive, RespawnFails,
              SupervisorAtBound, actorVars
<1> QED BY <1>1, <1>2, <1>3, <1>4, <1>5, ActOrNobodys DEF Act

\* A worker block of s puts the process it spawned in its place among the children
\* of s, and in no other; the one it replaces there is dead.
LEMMA BlockRuns ==
  ASSUME Core, NEW s \in Pid, StartChild(s) \/ Respawn(s)
  PROVE  \E i \in 1 .. NumWorkers :
           /\ started' = started \cup {<<s, i, nextId>>}
           /\ nextId \in Pid /\ nextId' = nextId + 1
           /\ i \in DOMAIN children'[s] /\ children'[s][i] = nextId
           /\ i \in DOMAIN children[s] => ~Alive(children[s][i])
           /\ \A j \in DOMAIN children[s] :
                j # i => j \in DOMAIN children'[s] /\ children'[s][j] = children[s][j]
           /\ \A q \in Pid : q # s => children'[q] = children[q]
<1>0. TypeOK /\ ActorsOwn /\ Loop(s)
  BY TypeParts DEF Core, Loops
<1>1. /\ Launch(Body) /\ nextId \in Pid /\ nextId' = nextId + 1
      /\ children[s] \in Seq(Pid) /\ NumWorkers \in Nat
  <2>1. Launch(Body)
    BY DEF StartChild, Respawn, RunBlock
  <2>2. nextId \in Pid /\ nextId' = nextId + 1
    BY <1>0, <2>1, SchedulerAssumption DEF Launch, TypeOK
  <2> QED BY <1>0, <2>1, <2>2, ActorsAssumption DEF ActorsOwn
<1>2. CASE StartChild(s)
  <2>1. /\ children' = [children EXCEPT ![s] = Append(children[s], nextId)]
        /\ started' = started \cup {<<s, Len(children[s]) + 1, nextId>>}
        /\ Len(children[s]) + 1 \in 1 .. NumWorkers
    BY <1>1, <1>2 DEF StartChild, RunBlock
  <2>2. /\ children'[s] = Append(children[s], nextId)
        /\ \A q \in Pid : q # s => children'[q] = children[q]
    BY <1>0, <2>1 DEF ActorsOwn
  <2>3. PICK n \in Nat : n = Len(children[s])
    BY <1>1
  <2>4. /\ n + 1 \in DOMAIN children'[s] /\ children'[s][n + 1] = nextId
        /\ n + 1 \notin DOMAIN children[s]
        /\ \A j \in DOMAIN children[s] : j \in DOMAIN children'[s] /\ children'[s][j] = children[s][j]
    BY <1>1, <2>2, <2>3
  <2> QED BY <1>1, <2>1, <2>2, <2>3, <2>4
<1>3. CASE Respawn(s)
  <2>1. PICK n \in Nat : n = cursor[s]
    BY <1>0, ActorsAssumption DEF ActorsOwn
  <2>2. /\ children' = [children EXCEPT ![s][n + 1] = nextId]
        /\ started' = started \cup {<<s, n + 1, nextId>>}
        /\ n + 1 \in 1 .. NumWorkers /\ n + 1 \in DOMAIN children[s]
        /\ ~Alive(children[s][n + 1])
    BY <1>0, <1>1, <1>3, <2>1 DEF Respawn, AtChild, RunBlock, Loop
  <2>3. /\ children'[s] = [children[s] EXCEPT ![n + 1] = nextId]
        /\ \A q \in Pid : q # s => children'[q] = children[q]
    BY <1>0, <2>2 DEF ActorsOwn
  <2>4. /\ n + 1 \in DOMAIN children'[s] /\ children'[s][n + 1] = nextId
        /\ \A j \in DOMAIN children[s] :
             j # n + 1 => j \in DOMAIN children'[s] /\ children'[s][j] = children[s][j]
    BY <1>1, <2>2, <2>3
  <2> QED BY <1>1, <2>2, <2>3, <2>4
<1> QED BY <1>2, <1>3

\* The live child of a block stays its supervisor's child.
LEMMA NextChildrenTracked ==
  ASSUME Core, ChildrenTracked, [NextActors]_allVars
  PROVE  ChildrenTracked'
<1>0. TypeOK /\ ActorsOwn /\ ActorsTypeOK /\ Loops /\ Settled /\ ActorsOwn'
  BY TypeParts, NextActorsTyped DEF Core, ActorsTypeOK, ActorsOwn
<1> SUFFICES ASSUME NEW s \in Pid, NEW i \in 1 .. NumWorkers, NEW c \in Pid,
                    <<s, i, c>> \in started'
             PROVE  /\ Exists(c)'
                    /\ Alive(c)' => i \in DOMAIN children'[s] /\ children'[s][i] = c
  <2>1. \A x \in started' : \E s \in Pid, i \in 1 .. NumWorkers, c \in Pid : x = <<s, i, c>>
    BY <1>0 DEF ActorsOwn
  <2>2. ASSUME NEW x \in started'
        PROVE  /\ x[3] \in 0 .. (nextId' - 1)
               /\ x[3] \in 0 .. (nextId' - 1) /\ ~finished'[x[3]]
                    => x[2] \in DOMAIN children'[x[1]] /\ children'[x[1]][x[2]] = x[3]
    <3>1. PICK s \in Pid, i \in 1 .. NumWorkers, c \in Pid : x = <<s, i, c>>
      BY <2>1
    <3>2. x[1] = s /\ x[2] = i /\ x[3] = c
      BY <3>1
    <3>3. /\ Exists(c)'
          /\ Alive(c)' => i \in DOMAIN children'[s] /\ children'[s][i] = c
      BY <3>1
    <3> QED BY <3>2, <3>3 DEF Alive, Exists
  <2> QED BY <2>2 DEF ChildrenTracked, Alive, Exists
<1>1. ASSUME <<s, i, c>> \in started
      PROVE  /\ Exists(c) /\ Exists(c)'
             /\ Alive(c)' => i \in DOMAIN children[s] /\ children[s][i] = c /\ Alive(c)
  <2>1. Exists(c) /\ (Alive(c) => i \in DOMAIN children[s] /\ children[s][i] = c)
    BY <1>1 DEF ChildrenTracked
  <2> QED BY <1>0, <2>1, Lifetimes
<1>2. CASE UNCHANGED <<children, started>>
  BY <1>1, <1>2
<1>3. ASSUME NEW x \in Pid, StartChild(x) \/ Respawn(x)
      PROVE  /\ Exists(c)'
             /\ Alive(c)' => i \in DOMAIN children'[s] /\ children'[s][i] = c
  <2>1. PICK k \in 1 .. NumWorkers :
           /\ started' = started \cup {<<x, k, nextId>>}
           /\ nextId \in Pid /\ nextId' = nextId + 1
           /\ k \in DOMAIN children'[x] /\ children'[x][k] = nextId
           /\ k \in DOMAIN children[x] => ~Alive(children[x][k])
           /\ \A j \in DOMAIN children[x] :
                j # k => j \in DOMAIN children'[x] /\ children'[x][j] = children[x][j]
           /\ \A q \in Pid : q # x => children'[q] = children[q]
    BY <1>3, BlockRuns
  <2>2. CASE <<s, i, c>> = <<x, k, nextId>>
    <3>1. s = x /\ i = k /\ c = nextId
      BY <2>2
    <3>2. c \in 0 .. (nextId' - 1)
      BY <2>1, <3>1
    <3> QED BY <2>1, <3>1, <3>2 DEF Exists
  <2>3. CASE <<s, i, c>> \in started
    <3>1. CASE s # x
      BY <1>1, <2>1, <2>3, <3>1
    <3>2. CASE s = x /\ i # k
      BY <1>1, <2>1, <2>3, <3>2
    <3>3. CASE s = x /\ i = k
      BY <1>1, <2>1, <2>3, <3>3
    <3> QED BY <3>1, <3>2, <3>3
  <2> QED BY <2>1, <2>2, <2>3
<1> QED BY <1>2, <1>3, ChildrenSame

\* A supervisor never has two live children of one worker block.
THEOREM OneLiveChildPerBlock == ActorsSpec => []OneLiveChild
<1> DEFINE Inv == Core /\ ChildrenTracked
<1>1. InitActors => Inv
  <2>1. InitActors => ChildrenTracked
    BY DEF InitActors, ChildrenTracked
  <2> QED BY <2>1, InitCore
<1>2. Inv /\ [NextActors]_allVars => Inv'
  BY NextCore, NextChildrenTracked
<1>3. Inv => OneLiveChild
  <2> SUFFICES ASSUME Core, ChildrenTracked, NEW x \in started, NEW y \in started,
                      x[1] = y[1], x[2] = y[2], Alive(x[3]), Alive(y[3])
               PROVE  x = y
    BY DEF OneLiveChild
  <2>1. x \in Pid \X (1 .. NumWorkers) \X Pid /\ y \in Pid \X (1 .. NumWorkers) \X Pid
    BY TypeParts DEF Core, ActorsOwn
  <2>2. x[3] = y[3]
    BY DEF ChildrenTracked
  <2> QED BY <2>1, <2>2
<1> QED BY <1>1, <1>2, <1>3, PTL DEF ActorsSpec

(***************************************************************************)
(* Polls: a child that is dead when a poll begins is replaced in it.       *)
(***************************************************************************)

\* Every step but the start of a poll leaves its history alone.
LEMMA OverdueSame ==
  ASSUME [NextActors]_allVars, \A s \in Pid : ~SleepOver(s)
  PROVE  overdue' = overdue
<1>1. CASE Nobodys
  BY <1>1 DEF Nobodys, actorVars
<1>2. ASSUME NEW p \in Pid, SchedOwn(p) PROVE overdue' = overdue
  BY <1>2 DEF SchedOwn, ScanActors, actorVars
<1>3. ASSUME NEW p \in Pid, Actor(p) \/ TaskDone(p) PROVE overdue' = overdue
  BY <1>3 DEF Actor, TaskDone, StartTask, StartServer, StartSupervisor, Await, Cast, Call,
              actorVars
<1>4. ASSUME NEW p \in Pid, Server(p) PROVE overdue' = overdue
  BY <1>4 DEF Server, ServeIdle, ServeSkip, ServeTake, SlotReply, SlotHold, SlotDrop,
              AfterSlot, ReplyFrom, actorVars
<1>5. ASSUME NEW p \in Pid, Supervisor(p) PROVE overdue' = overdue
  BY <1>5 DEF Supervisor, StartChild, Respawn, RunBlock, SupervisorSleeps, PollAlive,
              RespawnFails, SupervisorAtBound, actorVars
<1> QED BY <1>1, <1>2, <1>3, <1>4, <1>5, ActOrNobodys DEF Act

\* A supervisor between two polls, or in one, moves only by its own steps.
LEMMA PollSteps ==
  ASSUME Core, [NextActors]_allVars, NEW s \in Pid, Exists(s),
         wait[s].kind \in {"sleep", "polling"}
  PROVE  \/ wait'[s] = wait[s] /\ UNCHANGED <<children[s], cursor[s]>>
         \/ SleepOver(s) \/ PollAlive(s) \/ Respawn(s) \/ SupervisorSleeps(s)
<1>0. TypeOK /\ ActorsOwn /\ ActorsTypeOK /\ Loops /\ Settled /\ nextId \in Nat
  BY TypeParts, SettledFacts DEF Core
<1> USE DEF procVars, waitVars, queueVars, driveVars
<1>1. ASSUME NEW x, Untouched(s) \/ Newborn(s, x)
      PROVE  wait'[s] = wait[s] /\ UNCHANGED <<children[s], cursor[s]>>
  <2>1. ~Newborn(s, x)
    BY <1>0 DEF Newborn, Exists
  <2> QED BY <1>1, <2>1 DEF Untouched
<1>2. CASE Nobodys
  BY <1>0, <1>1, <1>2, NobodysOthers
<1>3. ASSUME NEW x \in Pid, Act(x), s # x
      PROVE  wait'[s] = wait[s] /\ UNCHANGED <<children[s], cursor[s]>>
  BY <1>0, <1>1, <1>3, ActOthers DEF OthersKept
<1>4. CASE SchedOwn(s)
  <2>1. ~InBody(s) /\ ~InGuard(s) /\ wait[s].kind \notin ScanKinds
    BY DEF InBody, InGuard, Scanning, ScanKinds
  <2> QED BY <1>4, <2>1 DEF SchedOwn, Operate, Spawn, Send, Receive, RegisterName, Preempt,
                            ScanActors, Scan, ScanHit, ScanMiss, ScanPreempt, TimeoutBranch,
                            Scanning, Finish, Crash
<1>5. ~Actor(s) /\ ~TaskDone(s)
  BY DEF Actor, StartTask, StartServer, StartSupervisor, Await, Cast, Call, TaskDone, InBody,
         InGuard, Scanning, ScanKinds
<1>6. ~Server(s)
  BY DEF Server, ServeIdle, ServeSkip, ServeTake, SlotReply, SlotHold, SlotDrop, ReplyFrom,
         InServeLoop, InSlot, InBody
<1>7. CASE Supervisor(s)
  <2>1. ~StartChild(s)
    BY DEF StartChild
  <2>2. CASE RespawnFails(s) \/ SupervisorAtBound(s)
    BY <2>2 DEF RespawnFails, SupervisorAtBound, actorVars
  <2> QED BY <1>7, <2>1, <2>2 DEF Supervisor
<1> QED BY <1>2, <1>3, <1>4, <1>5, <1>6, <1>7, ActOrNobodys DEF Act

\* What a poll has passed is not what was dead when it began.
Passed(s, i, c) ==
    /\ Exists(s) /\ Exists(c) /\ ~Alive(c)
    /\ wait[s].kind \in {"sleep", "polling"}
    /\ wait[s].kind = "sleep" \/ i <= cursor[s] => children[s][i] # c

LEMMA OverduePassed ==
  ASSUME ActorsOwn
  PROVE  OverdueTracked <=>
           \A s \in Pid, i \in 1 .. NumWorkers, c \in Pid :
             <<s, i, c>> \in overdue => Passed(s, i, c)
<1>1. \A x \in overdue : \E s \in Pid, i \in 1 .. NumWorkers, c \in Pid : x = <<s, i, c>>
  BY DEF ActorsOwn
<1>2. ASSUME OverdueTracked, NEW s \in Pid, NEW i \in 1 .. NumWorkers, NEW c \in Pid,
             <<s, i, c>> \in overdue
      PROVE  Passed(s, i, c)
  BY <1>2 DEF OverdueTracked, Passed
<1>3. ASSUME \A s \in Pid, i \in 1 .. NumWorkers, c \in Pid :
               <<s, i, c>> \in overdue => Passed(s, i, c),
             NEW x \in overdue
      PROVE  Passed(x[1], x[2], x[3])
  <2>1. PICK s \in Pid, i \in 1 .. NumWorkers, c \in Pid : x = <<s, i, c>>
    BY <1>1
  <2> QED BY <1>3, <2>1
<1>4. (\A x \in overdue : Passed(x[1], x[2], x[3])) => OverdueTracked
  BY DEF OverdueTracked, Passed
<1> QED BY <1>2, <1>3, <1>4

\* A poll passes a child that is alive, or that it has just replaced.
LEMMA NextOverdueTracked ==
  ASSUME Core, OverdueTracked, [NextActors]_allVars
  PROVE  OverdueTracked'
<1>0. /\ TypeOK /\ ActorsOwn /\ ActorsTypeOK /\ Loops /\ Settled /\ ActorsOwn'
      /\ nextId \in Nat
  BY TypeParts, NextActorsTyped, SettledFacts DEF Core, ActorsTypeOK, ActorsOwn
<1>1. ASSUME NEW s \in Pid, NEW i \in 1 .. NumWorkers, NEW c \in Pid,
             <<s, i, c>> \in overdue, ~SleepOver(s)
      PROVE  Passed(s, i, c)'
  <2>1. Passed(s, i, c)
    BY <1>0, <1>1, OverduePassed
  <2>2. /\ Exists(s)' /\ Exists(c)' /\ ~Alive(c)'
        /\ Exists(s) /\ wait[s].kind \in {"sleep", "polling"}
        /\ Exists(c) /\ ~Alive(c) /\ i \in Nat /\ i >= 1 /\ i <= NumWorkers
        /\ cursor[s] \in Nat /\ cursor[s] <= NumWorkers /\ NumWorkers \in Nat
        /\ children[s] \in Seq(Pid) /\ Len(children[s]) = NumWorkers
    BY <1>0, <2>1, Lifetimes, ActorsAssumption DEF Passed, ActorsOwn, Loops, Loop
  <2>3. CASE wait'[s] = wait[s] /\ UNCHANGED <<children[s], cursor[s]>>
    BY <2>1, <2>2, <2>3 DEF Passed, Exists, Alive
  <2>4. CASE PollAlive(s)
    <3>1. /\ wait' = wait /\ children' = children /\ cursor'[s] = cursor[s] + 1
          /\ wait[s].kind = "polling" /\ Alive(children[s][cursor[s] + 1])
      BY <1>0, <2>4 DEF PollAlive, AtChild, vars, waitVars, ActorsOwn
    <3>2. i <= cursor'[s] => i <= cursor[s] \/ i = cursor[s] + 1
      BY <2>2, <3>1
    <3>3. i <= cursor'[s] => children[s][i] # c
      BY <2>1, <2>2, <3>1, <3>2 DEF Passed
    <3> QED BY <2>2, <3>1, <3>3 DEF Passed, Exists, Alive
  <2>5. CASE Respawn(s)
    <3>1. PICK n \in Nat : n = cursor[s]
      BY <2>2
    <3>2. /\ children' = [children EXCEPT ![s][n + 1] = nextId] /\ cursor'[s] = n + 1
          /\ wait[s].kind = "polling" /\ n < NumWorkers /\ Launch(Body)
      BY <1>0, <2>5, <3>1 DEF Respawn, AtChild, RunBlock, ActorsOwn
    <3>3. nextId \in Pid /\ nextId # s /\ nextId # c /\ wait'[s] = wait[s]
      <4>1. nextId \in Pid
        BY <1>0, <3>2, SchedulerAssumption DEF Launch, TypeOK
      <4>2. nextId # s /\ nextId # c
        BY <1>0, <2>2 DEF Exists
      <4> QED BY <1>0, <3>2, <4>1, <4>2 DEF Launch, TypeOK
    <3>4. children'[s] = [children[s] EXCEPT ![n + 1] = nextId]
      BY <1>0, <3>2 DEF ActorsOwn
    <3>5. children'[s][i] = IF i = n + 1 THEN nextId ELSE children[s][i]
      BY <2>2, <3>4
    <3>6. i <= cursor'[s] => i <= n \/ i = n + 1
      BY <2>2, <3>1, <3>2
    <3>7. i <= cursor'[s] => children'[s][i] # c
      BY <2>1, <3>1, <3>3, <3>5, <3>6 DEF Passed
    <3> QED BY <2>2, <3>2, <3>3, <3>7 DEF Passed, Exists, Alive
  <2>6. CASE SupervisorSleeps(s)
    <3>1. wait'[s].kind = "sleep" /\ children' = children
      BY <1>0, <2>6 DEF SupervisorSleeps, SleepFor, TypeOK
    <3>2. cursor[s] = NumWorkers /\ wait[s].kind = "polling"
      BY <2>2, <2>6 DEF SupervisorSleeps
    <3>3. children'[s][i] # c
      BY <2>1, <2>2, <3>1, <3>2 DEF Passed
    <3> QED BY <2>2, <3>1, <3>3 DEF Passed, Exists, Alive
  <2> QED BY <1>0, <1>1, <2>2, <2>3, <2>4, <2>5, <2>6, PollSteps
<1>2. ASSUME NEW p \in Pid, SleepOver(p), NEW i \in 1 .. NumWorkers, NEW c \in Pid,
             DeadChild(p, i), c = children[p][i]
      PROVE  Passed(p, i, c)'
  <2>1. Act(p)
    BY <1>2 DEF Act, Supervisor
  <2>2. Exists(p)' /\ Exists(c)' /\ ~Alive(c)'
    <3>1. Exists(p)
      BY <1>0, <2>1, ActRuns DEF Alive
    <3>2. Exists(c) /\ ~Alive(c)
      BY <1>0, <1>2 DEF DeadChild, Loops, Loop
    <3> QED BY <1>0, <3>1, <3>2, Lifetimes
  <2>3. wait'[p] = Polling /\ cursor' = cursor /\ cursor[p] = 0
    BY <1>0, <1>2 DEF SleepOver, TypeOK, Loops, Loop
  <2>4. ~(i <= cursor'[p]) /\ wait'[p].kind = "polling"
    BY <2>3, LoopWaits
  <2> QED BY <2>2, <2>4 DEF Passed, Exists, Alive
<1>3. ASSUME NEW s \in Pid, NEW i \in 1 .. NumWorkers, NEW c \in Pid, <<s, i, c>> \in overdue'
      PROVE  Passed(s, i, c)'
  <2>1. CASE \A p \in Pid : ~SleepOver(p)
    BY <1>1, <1>3, <2>1, OverdueSame
  <2>2. ASSUME NEW p \in Pid, SleepOver(p) PROVE Passed(s, i, c)'
    <3>1. overdue' = {x \in overdue : x[1] # p}
             \cup {<<p, j, children[p][j]>> : j \in {k \in 1 .. NumWorkers : DeadChild(p, k)}}
      BY <2>2 DEF SleepOver
    <3>2. CASE <<s, i, c>> \in overdue /\ s # p
      <4>1. current = p
        BY <2>2 DEF SleepOver
      <4>2. ~SleepOver(s)
        BY <3>2, <4>1 DEF SleepOver
      <4> QED BY <1>1, <3>2, <4>2
    <3>3. CASE \E j \in 1 .. NumWorkers : DeadChild(p, j) /\ <<s, i, c>> = <<p, j, children[p][j]>>
      <4>1. s = p /\ DeadChild(p, i) /\ c = children[p][i]
        BY <3>3
      <4> QED BY <1>2, <2>2, <4>1
    <3> QED BY <1>3, <3>1, <3>2, <3>3
  <2> QED BY <2>1, <2>2
<1>4. \A s \in Pid, i \in 1 .. NumWorkers, c \in Pid :
        <<s, i, c>> \in overdue' => Passed(s, i, c)'
  BY <1>3
<1> QED
  <2>1. ASSUME NEW x \in overdue'
        PROVE  /\ x[1] \in 0 .. (nextId' - 1) /\ x[3] \in 0 .. (nextId' - 1)
               /\ ~(x[3] \in 0 .. (nextId' - 1) /\ ~finished'[x[3]])
               /\ wait'[x[1]].kind \in {"sleep", "polling"}
               /\ wait'[x[1]].kind = "sleep" \/ x[2] <= cursor'[x[1]]
                    => children'[x[1]][x[2]] # x[3]
    <3>1. PICK s \in Pid, i \in 1 .. NumWorkers, c \in Pid : x = <<s, i, c>>
      BY <1>0 DEF ActorsOwn
    <3>2. x[1] = s /\ x[2] = i /\ x[3] = c
      BY <3>1
    <3>3. Passed(s, i, c)'
      BY <1>4, <3>1
    <3> QED BY <3>2, <3>3 DEF Passed, Exists, Alive
  <2> QED BY <2>1 DEF OverdueTracked, Exists, Alive

\* When a supervisor sleeps again, its poll has replaced every child that was dead
\* when it began.
THEOREM PollsReplaceTheDead == ActorsSpec => []PollReplaces
<1> DEFINE Inv == Core /\ OverdueTracked
<1>1. InitActors => Inv
  <2>1. InitActors => OverdueTracked
    BY DEF InitActors, OverdueTracked
  <2> QED BY <2>1, InitCore
<1>2. Inv /\ [NextActors]_allVars => Inv'
  BY NextCore, NextOverdueTracked
<1>3. Inv => PollReplaces
  BY DEF OverdueTracked, PollReplaces
<1> QED BY <1>1, <1>2, <1>3, PTL DEF ActorsSpec

=============================================================================
