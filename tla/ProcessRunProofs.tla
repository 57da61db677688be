-------------------------- MODULE ProcessRunProofs --------------------------
(***************************************************************************)
(* Proofs about ProcessRun, for pipes of any size and any number of writes:*)
(* what the call answers with is all of the output, its child is reaped,   *)
(* and after SIGKILL nothing of the group lives on.                        *)
(*                                                                         *)
(* Consistent is inductive: each action is shown to keep its type part and *)
(* its other part.                                                         *)
(***************************************************************************)
EXTENDS ProcessRun, TLAPS

Rest == ChildReaped /\ KillsOwn /\ KilledWhole /\ Drained /\ Stages

\* Short names, expanded in every proof below.
USE DEF Members, Pipes, Running, Ends, processVars, callerVars, Rest

\* Whichever call it is, it starts with the child running.
LEMMA InitConsistent == Init => Consistent
<1> SUFFICES ASSUME Init PROVE Consistent
  OBVIOUS
<1>1. \/ mode = "timed" /\ pc = "loop"
      \/ mode = "untimed" /\ pc = "drain"
      \/ mode = "stream" /\ pc = "wait"
  BY ProcessRunAssumption DEF Init, AllModes
<1>2. TypeOK
  <2>1. /\ state["child"] = "running" /\ state["grandchild"] = "absent"
        /\ holds["child"] \subseteq Pipes /\ holds["grandchild"] = {}
        /\ state \in [Members -> {"absent", "running", "zombie", "gone"}]
        /\ holds \in [Members -> SUBSET Pipes]
    BY DEF Init
  <2>2. /\ ignores \subseteq Members /\ pending \in [Members -> {"none", "term", "kill"}]
        /\ open \subseteq Pipes
    BY DEF Init
  <2>3. /\ written \in [Pipes -> 0..MaxWrites]
        /\ \A f \in Pipes : taken[f] \in 0..written[f] /\ written[f] - taken[f] \in 0..PipeSize
    BY ProcessRunAssumption DEF Init
  <2> QED BY <1>1, <2>1, <2>2, <2>3 DEF Init, TypeOK
<1>3. Rest
  <2>1. Drained
    BY <1>1 DEF Init, Drained
  <2> QED BY <1>1, <2>1 DEF Init, ChildReaped, KillsOwn, KilledWhole, Stages
<1> QED BY <1>2, <1>3 DEF Consistent

\* A read takes no more than was written, and closes a pipe at its end only.
LEMMA ReadSafe ==
    ASSUME TypeOK, UNCHANGED <<processVars, mode, result>>, ReadReady
    PROVE  /\ \A f \in Pipes : taken'[f] \in 0..written[f]
                              /\ written[f] - taken'[f] \in 0..PipeSize
           /\ open' \subseteq open
           /\ Drained => Drained'
<1>1. ASSUME NEW f \in Pipes
      PROVE  /\ taken'[f] = (IF f \in Ready /\ Holds(f) THEN taken[f] + 1 ELSE taken[f])
             /\ taken[f] \in 0..written[f] /\ written[f] \in Nat
             /\ written[f] - taken[f] \in 0..PipeSize
  BY ProcessRunAssumption DEF ReadReady, ReadSome, TypeOK
<1>2. ASSUME NEW f \in Pipes
      PROVE  taken'[f] \in 0..written[f] /\ written[f] - taken'[f] \in 0..PipeSize
  BY <1>1, ProcessRunAssumption DEF Holds
<1>3. open' \subseteq open
  BY DEF ReadReady, ReadSome
<1>4. ASSUME Drained, mode = "untimed" \/ (mode = "timed" /\ result = "none"),
             NEW f \in Pipes \ open'
      PROVE  taken'[f] = written[f] /\ Ends(f)
  <2>1. CASE f \in open
    <3>1. f \in Ready /\ ~Holds(f)
      BY <2>1 DEF ReadReady, ReadSome
    <3> QED BY <1>1, <3>1 DEF Ready, Holds
  <2>2. CASE f \notin open
    <3>1. taken[f] = written[f] /\ Ends(f)
      BY <1>4, <2>2 DEF Drained
    <3> QED BY <1>1, <2>2, <3>1 DEF Ready
  <2> QED BY <2>1, <2>2
<1> QED BY <1>2, <1>3, <1>4 DEF Drained

\* A process writes to a pipe that is open.
LEMMA WriteKeeps ==
    ASSUME Consistent, NEW p \in Members, NEW f \in Pipes, Write(p, f)
    PROVE  Consistent'
<1>1. TypeOK'
  BY ProcessRunAssumption DEF Consistent, TypeOK, Write
<1>2. Rest'
  BY DEF Consistent, TypeOK, ChildReaped, KillsOwn, KilledWhole, Drained, Stages,
         Write
<1> QED BY <1>1, <1>2 DEF Consistent

\* A process closes its end of a pipe.
LEMMA CloseOutputKeeps ==
    ASSUME Consistent, NEW p \in Members, NEW f \in Pipes, CloseOutput(p, f)
    PROVE  Consistent'
<1>1. TypeOK'
  BY ProcessRunAssumption DEF Consistent, TypeOK, CloseOutput
<1>2. Rest'
  BY DEF Consistent, TypeOK, ChildReaped, KillsOwn, KilledWhole, Drained, Stages,
         CloseOutput
<1> QED BY <1>1, <1>2 DEF Consistent

\* A child with a signal pending does not fork.
LEMMA ForkKeeps ==
    ASSUME Consistent, Fork
    PROVE  Consistent'
<1>1. TypeOK'
  BY ProcessRunAssumption DEF Consistent, TypeOK, Fork
<1>2. Rest'
  BY DEF Consistent, TypeOK, ChildReaped, KillsOwn, KilledWhole, Drained, Stages,
         Fork
<1> QED BY <1>1, <1>2 DEF Consistent

\* A process ends, and its pending signal with it.
LEMMA EndedKeeps ==
    ASSUME Consistent, NEW p \in Members, Running(p), Ended(p)
    PROVE  Consistent'
<1>1. TypeOK'
  BY ProcessRunAssumption DEF Consistent, TypeOK, Ended
<1>2. Rest'
  BY DEF Consistent, TypeOK, ChildReaped, KillsOwn, KilledWhole, Drained, Stages,
         Ended
<1> QED BY <1>1, <1>2 DEF Consistent

\* A signal forwarded is not stronger than one that was sent.
LEMMA InterruptKeeps ==
    ASSUME Consistent, Interrupt
    PROVE  Consistent'
<1>1. TypeOK'
  BY ProcessRunAssumption DEF Consistent, TypeOK, Interrupt, Sent, Forwarded, Group
<1>2. Rest'
  BY DEF Consistent, TypeOK, ChildReaped, KillsOwn, KilledWhole, Drained, Stages,
         Interrupt, Sent, Forwarded, Group
<1> QED BY <1>1, <1>2 DEF Consistent

\* drainPipes closes a pipe at its end only.
LEMMA DrainKeeps ==
    ASSUME Consistent, Drain
    PROVE  Consistent'
<1>1. UNCHANGED <<mode, processVars, late, exited, expired, result, killed>>
  BY DEF Drain
<1>2. CASE ReadReady
  <2>1. TypeOK'
    BY <1>1, <1>2, ReadSafe DEF Drain, Consistent, TypeOK
  <2>2. Drained' /\ open' \subseteq open
    BY <1>1, <1>2, ReadSafe DEF Consistent
  <2>3. ChildReaped' /\ KillsOwn' /\ KilledWhole' /\ Stages'
    BY <1>1, <2>2 DEF Drain, Consistent, ChildReaped, KillsOwn, KilledWhole, Stages
  <2> QED BY <2>1, <2>2, <2>3 DEF Consistent
<1>3. CASE UNCHANGED <<taken, open>>
  <2>1. TypeOK'
    BY <1>1, <1>3 DEF Drain, Consistent, TypeOK
  <2>2. Rest'
    BY <1>1, <1>3 DEF Drain, Consistent, TypeOK, ChildReaped, KillsOwn, KilledWhole, Drained,
                      Stages
  <2> QED BY <2>1, <2>2 DEF Consistent
<1> QED BY <1>2, <1>3 DEF Drain

\* So does the loop that minds the limit.
LEMMA PollKeeps ==
    ASSUME Consistent, Poll
    PROVE  Consistent'
<1>1. UNCHANGED <<mode, processVars, late, exited, expired, result, killed>>
  BY DEF Poll
<1>2. CASE ReadReady
  <2>1. TypeOK'
    BY <1>1, <1>2, ReadSafe DEF Poll, Consistent, TypeOK
  <2>2. Drained' /\ open' \subseteq open
    BY <1>1, <1>2, ReadSafe DEF Consistent
  <2>3. ChildReaped' /\ KillsOwn' /\ KilledWhole' /\ Stages'
    BY <1>1, <2>2 DEF Poll, Consistent, ChildReaped, KillsOwn, KilledWhole, Stages
  <2> QED BY <2>1, <2>2, <2>3 DEF Consistent
<1>3. CASE UNCHANGED <<taken, open>>
  <2>1. TypeOK'
    BY <1>1, <1>3 DEF Poll, Consistent, TypeOK
  <2>2. Rest'
    BY <1>1, <1>3 DEF Poll, Consistent, TypeOK, ChildReaped, KillsOwn, KilledWhole, Drained,
                      Stages
  <2> QED BY <2>1, <2>2 DEF Consistent
<1> QED BY <1>2, <1>3 DEF Poll

\* The child reaped after the limit was reached.
LEMMA ReapKeeps ==
    ASSUME Consistent, Reap, pc \in {"grace", "reap"}, pc' = "close",
           UNCHANGED <<mode, taken, open, late, expired, result, killed>>
    PROVE  Rest'
<1>1. /\ \A p \in Members : Running(p)' <=> Running(p)
      /\ \A f \in Pipes : Ends(f)' <=> Ends(f)
  BY DEF Reap, Consistent, TypeOK
<1>2. ChildReaped' /\ KillsOwn'
  BY DEF Reap, Consistent, TypeOK, ChildReaped, KillsOwn, Stages
<1>3. KilledWhole'
  BY <1>1 DEF Reap, Consistent, KilledWhole
<1>4. Drained'
  BY <1>1 DEF Reap, Consistent, Drained
<1>5. Stages'
  BY DEF Reap, Consistent, TypeOK, Stages
<1> QED BY <1>2, <1>3, <1>4, <1>5

\* The child is reaped by waitpid.
LEMMA WaitKeeps ==
    ASSUME Consistent, Wait
    PROVE  Consistent'
<1>1. TypeOK'
  BY ProcessRunAssumption DEF Consistent, TypeOK, Wait, Reap
<1>2. Rest'
  BY DEF Consistent, TypeOK, ChildReaped, KillsOwn, KilledWhole, Drained, Stages,
         Wait, Reap
<1> QED BY <1>1, <1>2 DEF Consistent

\* The child is reaped while its output is still read.
LEMMA WatchKeeps ==
    ASSUME Consistent, Watch
    PROVE  Consistent'
<1>1. TypeOK'
  BY ProcessRunAssumption DEF Consistent, TypeOK, Watch, Reap
<1>2. Rest'
  BY DEF Consistent, TypeOK, ChildReaped, KillsOwn, KilledWhole, Drained, Stages,
         Watch, Reap
<1> QED BY <1>1, <1>2 DEF Consistent

\* The loop is left at the end of both, or at the limit.
LEMMA LoopKeeps ==
    ASSUME Consistent, Loop
    PROVE  Consistent'
<1>1. TypeOK'
  BY ProcessRunAssumption DEF Consistent, TypeOK, Loop, LoopEnds
<1>2. Rest'
  BY DEF Consistent, TypeOK, ChildReaped, KillsOwn, KilledWhole, Drained, Stages,
         Loop, LoopEnds
<1> QED BY <1>1, <1>2 DEF Consistent

\* SIGTERM is sent to a group whose leader has not been reaped.
LEMMA TermKeeps ==
    ASSUME Consistent, Term
    PROVE  Consistent'
<1>1. TypeOK'
  BY ProcessRunAssumption DEF Consistent, TypeOK, Term, Sent, Group
<1>2. Rest'
  BY DEF Consistent, TypeOK, ChildReaped, KillsOwn, KilledWhole, Drained, Stages,
         Term, Sent, Group
<1> QED BY <1>1, <1>2 DEF Consistent

\* The child ends within the grace period or it does not.
LEMMA GraceKeeps ==
    ASSUME Consistent, Grace
    PROVE  Consistent'
<1>1. TypeOK'
  BY ProcessRunAssumption DEF Consistent, TypeOK, Grace, Reap
<1>2. CASE Reap /\ pc' = "close"
  BY <1>1, <1>2, ReapKeeps DEF Grace, Consistent
<1>3. CASE pc' = "kill" /\ UNCHANGED <<processVars, exited>>
  BY <1>1, <1>3
     DEF Consistent, TypeOK, ChildReaped, KillsOwn, KilledWhole, Drained, Stages, Grace
<1> QED BY <1>2, <1>3 DEF Grace

\* SIGKILL reaches all that runs.
LEMMA KillKeeps ==
    ASSUME Consistent, Kill
    PROVE  Consistent'
<1>1. TypeOK'
  BY ProcessRunAssumption DEF Consistent, TypeOK, Kill, Sent, Group
<1>2. Rest'
  BY DEF Consistent, TypeOK, ChildReaped, KillsOwn, KilledWhole, Drained, Stages,
         Kill, Sent, Group
<1> QED BY <1>1, <1>2 DEF Consistent

\* A child that was killed is reaped.
LEMMA ReapKilledKeeps ==
    ASSUME Consistent, ReapKilled
    PROVE  Consistent'
<1>1. TypeOK'
  BY ProcessRunAssumption DEF Consistent, TypeOK, ReapKilled, Reap
<1>2. Rest'
  BY ReapKeeps DEF ReapKilled, Consistent
<1> QED BY <1>1, <1>2 DEF Consistent

\* The call answers.
LEMMA AnswerKeeps ==
    ASSUME Consistent, Answer
    PROVE  Consistent'
<1>1. TypeOK'
  BY ProcessRunAssumption DEF Consistent, TypeOK, Answer
<1>2. Rest'
  BY DEF Consistent, TypeOK, ChildReaped, KillsOwn, KilledWhole, Drained, Stages,
         Answer
<1> QED BY <1>1, <1>2 DEF Consistent

\* Time passes.
LEMMA ElapseKeeps ==
    ASSUME Consistent, Elapse
    PROVE  Consistent'
<1>1. TypeOK'
  BY ProcessRunAssumption DEF Consistent, TypeOK, Elapse
<1>2. Rest'
  BY DEF Consistent, TypeOK, ChildReaped, KillsOwn, KilledWhole, Drained, Stages,
         Elapse
<1> QED BY <1>1, <1>2 DEF Consistent

\* In every state the parts of Consistent hold, for all constants.
THEOREM AlwaysConsistent == Spec => []Consistent
<1>1. Consistent /\ [Next]_vars => Consistent'
  <2> SUFFICES ASSUME Consistent, [Next]_vars PROVE Consistent'
    OBVIOUS
  <2>1. CASE Caller
    BY <2>1, DrainKeeps, WaitKeeps, LoopKeeps, PollKeeps, WatchKeeps, TermKeeps, GraceKeeps,
       KillKeeps, ReapKilledKeeps, AnswerKeeps DEF Caller
  <2>2. CASE Program
    <3>1. ASSUME NEW p \in Members, Exit(p) \/ Abort(p) PROVE Consistent'
      BY <3>1, EndedKeeps DEF Exit, Abort
    <3> QED BY <2>2, <3>1, WriteKeeps, CloseOutputKeeps, ForkKeeps DEF Program
  <2>3. ASSUME NEW p \in Members, TakeSignal(p) PROVE Consistent'
    BY <2>3, EndedKeeps DEF TakeSignal
  <2>4. CASE UNCHANGED vars
    <3>1. TypeOK' /\ Rest'
      BY <2>4 DEF Consistent, TypeOK, ChildReaped, KillsOwn, KilledWhole, Drained, Stages,
                  vars
    <3> QED BY <3>1 DEF Consistent
  <2> QED BY <2>1, <2>2, <2>3, <2>4, InterruptKeeps, ElapseKeeps DEF Next
<1> QED BY <1>1, InitConsistent, PTL DEF Spec

\* A call that answers with the output has all of it.
THEOREM AnswersWithAllOutput == Spec => []OutputWhole
<1>1. Consistent => OutputWhole
  BY DEF Consistent, TypeOK, Drained, Stages, OutputWhole, AllRead
<1> QED BY <1>1, AlwaysConsistent, PTL

\* However it ends, the call has reaped its child, and it signals the group
\* only while its leader has not been.
THEOREM ChildIsReaped == Spec => [](ChildReaped /\ KillsOwn)
<1>1. Consistent => ChildReaped /\ KillsOwn
  BY DEF Consistent
<1> QED BY <1>1, AlwaysConsistent, PTL

\* After SIGKILL all that is left of the group is about to die, whatever was
\* forked while the signals were sent.
THEOREM KillLeavesNobody == Spec => []KilledWhole
<1>1. Consistent => KilledWhole
  BY DEF Consistent
<1> QED BY <1>1, AlwaysConsistent, PTL
=============================================================================
