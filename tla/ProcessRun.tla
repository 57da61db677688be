----------------------------- MODULE ProcessRun -----------------------------
(***************************************************************************)
(* Process.run and Process.stream of the interpreter                       *)
(* (src/interpreter/stdlib/process.cxx): one call that starts a child,     *)
(* collects what it prints over two pipes, waits for it, and, when it was  *)
(* given a time limit, kills it.                                           *)
(*                                                                         *)
(* The child may start a process of its own (the grandchild) that inherits *)
(* its pipes and its process group.  Both write, close their output, end,  *)
(* and mind SIGTERM or not, as they like.  A pipe holds PipeSize chunks    *)
(* and blocks its writer when full.  Time is a deadline that may pass      *)
(* whenever it has not, and a grace period after it.  A user may signal    *)
(* the interpreter while the call runs; it forwards the signal.            *)
(***************************************************************************)
EXTENDS Integers, FiniteSets

CONSTANTS
    Modes,     \* the calls that are made, of AllModes
    PipeSize,  \* the chunks a pipe holds
    MaxWrites  \* bound: chunks written to each pipe

AllModes == {"untimed", "timed", "stream"}

ASSUME ProcessRunAssumption ==
    /\ Modes \subseteq AllModes
    /\ PipeSize \in Nat \ {0}
    /\ MaxWrites \in Nat

Pipes == {"out", "err"}
Members == {"child", "grandchild"}

VARIABLES
    mode,     \* Process.run without or with a limit, or Process.stream
    state,    \* of each process: absent, running, zombie or gone
    holds,    \* of each process: the pipes it holds the write end of
    ignores,  \* the processes that ignore SIGTERM
    pending,  \* the signal sent to each and not yet taken
    written,  \* chunks written to each pipe
    taken,    \* chunks read from it
    open,     \* the read ends the caller has not closed
    late,     \* the deadline, then the grace period, has passed
    exited,   \* the caller has reaped the child
    expired,  \* it gave up because of the deadline
    killed,   \* history: SIGKILL was sent to the group
    pc,       \* what the caller does next
    result    \* what the call has answered

vars == <<mode, state, holds, ignores, pending, written, taken, open, late,
          exited, expired, killed, pc, result>>
processVars == <<state, holds, ignores, pending, written>>
callerVars  == <<taken, open, late, exited, expired, killed, pc, result>>

TypeOK ==
    /\ mode \in Modes
    /\ state \in [Members -> {"absent", "running", "zombie", "gone"}]
    /\ state["grandchild"] # "zombie"
    /\ holds \in [Members -> SUBSET Pipes]
    /\ \A p \in Members : holds[p] # {} => state[p] = "running"
    /\ ignores \subseteq Members
    /\ pending \in [Members -> {"none", "term", "kill"}]
    /\ written \in [Pipes -> 0..MaxWrites]
    /\ \A f \in Pipes : taken[f] \in 0..written[f]
                        /\ written[f] - taken[f] \in 0..PipeSize
    /\ open \subseteq Pipes
    /\ late \in {"no", "deadline", "grace"}
    /\ exited \in BOOLEAN /\ expired \in BOOLEAN /\ killed \in BOOLEAN
    /\ pc \in {"loop", "poll", "watch", "term", "grace", "kill", "reap",
               "close", "drain", "wait", "done"}
    /\ result \in {"none", "ok", "error"}

Running(p) == state[p] = "running"
Ends(f)    == \A p \in Members : f \notin holds[p]
Holds(f)   == written[f] > taken[f]
Ready      == {f \in open : Holds(f) \/ Ends(f)}

---------------------------------------------------------------------------
(* The child and the grandchild. *)

Write(p, f) ==
    /\ Running(p) /\ f \in holds[p]
    /\ written[f] < MaxWrites /\ written[f] - taken[f] < PipeSize
    /\ written' = [written EXCEPT ![f] = @ + 1]
    /\ UNCHANGED <<mode, state, holds, ignores, pending, callerVars>>

CloseOutput(p, f) ==
    /\ Running(p) /\ f \in holds[p]
    /\ holds' = [holds EXCEPT ![p] = @ \ {f}]
    /\ UNCHANGED <<mode, state, ignores, pending, written, callerVars>>

\* fork does not return before a signal that is pending is taken.
Fork ==
    /\ Running("child") /\ pending["child"] = "none"
    /\ state["grandchild"] = "absent"
    /\ state' = [state EXCEPT !["grandchild"] = "running"]
    /\ holds' = [holds EXCEPT !["grandchild"] = holds["child"]]
    /\ \/ ignores' = IF "child" \in ignores THEN ignores \cup {"grandchild"} ELSE ignores
       \/ ignores' = ignores \cup {"grandchild"}
    /\ UNCHANGED <<mode, pending, written, callerVars>>

Ended(p) ==
    /\ state' = [state EXCEPT ![p] = IF p = "child" THEN "zombie" ELSE "gone"]
    /\ holds' = [holds EXCEPT ![p] = {}]
    /\ pending' = [pending EXCEPT ![p] = "none"]
    /\ UNCHANGED <<mode, ignores, written, callerVars>>

\* A writer that has more to say does not end before it has said it.
Exit(p) == Running(p) /\ (\A f \in holds[p] : written[f] = MaxWrites) /\ Ended(p)
Abort(p) == Running(p) /\ Ended(p)
TakeSignal(p) ==
    /\ Running(p) /\ pending[p] # "none"
    /\ Ended(p)

---------------------------------------------------------------------------
(* Signals.  A limited child leads a process group of its own, which is    *)
(* what the caller signals; otherwise only the child is.                   *)

Sent(targets, signal) ==
    pending' = [p \in Members |->
                  IF p \in targets /\ Running(p) /\ pending[p] # "kill"
                     /\ (signal = "kill" \/ p \notin ignores)
                  THEN signal ELSE pending[p]]

Group == Members
Forwarded == IF mode = "timed" THEN Group ELSE {"child"}

(* SIGINT, SIGTERM, SIGHUP or SIGQUIT while the forwarder is installed. *)
Interrupt ==
    /\ pc # "done"
    /\ Sent(Forwarded, "term")
    /\ UNCHANGED <<mode, state, holds, ignores, written, callerVars>>

---------------------------------------------------------------------------
(* The caller reads whichever pipe is ready, a chunk of each, and closes   *)
(* it at its end. *)

\* Faulty: a descriptor at its end counts as read from.
ReadSomeAtEnd(fs) ==
    /\ taken' = [f \in Pipes |-> IF f \in fs THEN taken[f] + 1 ELSE taken[f]]
    /\ open' = {f \in open : ~(f \in fs /\ ~Holds(f))}
ReadSome(fs) ==
    /\ taken' = [f \in Pipes |-> IF f \in fs /\ Holds(f) THEN taken[f] + 1 ELSE taken[f]]
    /\ open' = {f \in open : ~(f \in fs /\ ~Holds(f))}

\* Faulty: one stream is read to its end before the other is looked at.
ReadInOrder ==
    LET next == Ready \cap (IF "out" \in open THEN {"out"} ELSE Pipes)
    IN  next # {} /\ ReadSome(next)
(* poll answers, and each descriptor it names is read. *)
ReadReady == Ready # {} /\ ReadSome(Ready)

\* Faulty: until one of the streams has ended.
DrainOne ==
    /\ pc = "drain"
    /\ \/ open = Pipes /\ ReadReady /\ UNCHANGED pc
       \/ open # Pipes /\ pc' = "wait" /\ UNCHANGED <<taken, open>>
    /\ UNCHANGED <<mode, processVars, late, exited, expired, result, killed>>
(* drainPipes: until both streams have ended. *)
Drain ==
    /\ pc = "drain"
    /\ \/ open # {} /\ ReadReady /\ UNCHANGED pc
       \/ open = {} /\ pc' = "wait" /\ UNCHANGED <<taken, open>>
    /\ UNCHANGED <<mode, processVars, late, exited, expired, result, killed>>

Reap ==
    /\ state["child"] = "zombie"
    /\ state' = [state EXCEPT !["child"] = "gone"]
    /\ exited' = TRUE
    /\ UNCHANGED <<holds, ignores, pending, written>>

(* waitpid, for as long as it takes. *)
Wait ==
    /\ pc = "wait"
    /\ Reap
    /\ pc' = "done" /\ result' = "ok"
    /\ UNCHANGED <<mode, taken, open, late, expired, killed>>

---------------------------------------------------------------------------
(* With a limit: the pipes are polled until the deadline, and the child    *)
(* watched beside them. *)

LoopEnds == open = {} /\ exited

\* Faulty: the end of the output is taken for the end of the child.
LoopEarly ==
    /\ pc = "loop"
    /\ \/ open = {} /\ pc' = "close" /\ UNCHANGED expired
       \/ open # {} /\ late = "no" /\ pc' = "poll" /\ UNCHANGED expired
       \/ open # {} /\ late # "no" /\ expired' = TRUE
          /\ pc' = IF exited THEN "close" ELSE "term"
    /\ UNCHANGED <<mode, processVars, taken, open, late, exited, result, killed>>
\* Faulty: at the deadline the group is signalled in any case.
LoopKillsAnyway ==
    /\ pc = "loop"
    /\ \/ LoopEnds /\ pc' = "close" /\ UNCHANGED expired
       \/ ~LoopEnds /\ late = "no" /\ pc' = "poll" /\ UNCHANGED expired
       \/ ~LoopEnds /\ late # "no" /\ expired' = TRUE /\ pc' = "term"
    /\ UNCHANGED <<mode, processVars, taken, open, late, exited, result, killed>>
Loop ==
    /\ pc = "loop"
    /\ \/ LoopEnds /\ pc' = "close" /\ UNCHANGED expired
       \/ ~LoopEnds /\ late = "no" /\ pc' = "poll" /\ UNCHANGED expired
       \/ ~LoopEnds /\ late # "no" /\ expired' = TRUE
          /\ pc' = IF exited THEN "close" ELSE "term"
    /\ UNCHANGED <<mode, processVars, taken, open, late, exited, result, killed>>

\* A poll that nothing answers ends by itself; one that a signal interrupts
\* begins again from the loop.
Poll ==
    /\ pc = "poll"
    /\ \/ ReadReady /\ pc' = "watch"
       \/ Ready = {} /\ pc' = "watch" /\ UNCHANGED <<taken, open>>
       \/ pc' = "loop" /\ UNCHANGED <<taken, open>>
    /\ UNCHANGED <<mode, processVars, late, exited, expired, result, killed>>

\* waitpid does not wait.  Once the child is reaped it fails for want of a
\* child, and the loop is left, whatever the pipes still hold.
Watch ==
    /\ pc = "watch"
    /\ \/ Reap /\ pc' = "loop"
       \/ Running("child") /\ pc' = "loop" /\ UNCHANGED <<processVars, exited>>
       \/ exited /\ pc' = "close" /\ UNCHANGED <<processVars, exited>>
    /\ UNCHANGED <<mode, taken, open, late, expired, result, killed>>

(* What is still running when the limit is reached gets SIGTERM, and       *)
(* SIGKILL when the child has not ended within the grace period.           *)
Term ==
    /\ pc = "term"
    /\ Sent(Group, "term")
    /\ pc' = "grace"
    /\ UNCHANGED <<mode, state, holds, ignores, written, taken, open, late,
                   exited, expired, killed, result>>

\* Faulty: the grace period does not end.
GraceWithoutEnd ==
    /\ pc = "grace"
    /\ Reap /\ pc' = "close"
    /\ UNCHANGED <<mode, taken, open, late, expired, result, killed>>
Grace ==
    /\ pc = "grace"
    /\ \/ Reap /\ pc' = "close"
       \/ late = "grace" /\ pc' = "kill" /\ UNCHANGED <<processVars, exited>>
    /\ UNCHANGED <<mode, taken, open, late, expired, result, killed>>

\* Faulty: only the child is killed.
KillChild ==
    /\ pc = "kill"
    /\ Sent({"child"}, "kill")
    /\ pc' = "reap" /\ killed' = TRUE
    /\ UNCHANGED <<mode, state, holds, ignores, written, taken, open, late,
                   exited, expired, result>>
Kill ==
    /\ pc = "kill"
    /\ Sent(Group, "kill")
    /\ pc' = "reap" /\ killed' = TRUE
    /\ UNCHANGED <<mode, state, holds, ignores, written, taken, open, late,
                   exited, expired, result>>

ReapKilled ==
    /\ pc = "reap"
    /\ Reap /\ pc' = "close"
    /\ UNCHANGED <<mode, taken, open, late, expired, result, killed>>

\* Faulty: what was read is answered, timed out or not.
AnswerPartial ==
    /\ pc = "close"
    /\ open' = {}
    /\ pc' = "done" /\ result' = "ok"
    /\ UNCHANGED <<mode, processVars, taken, late, exited, expired, killed>>
(* The descriptors still open are closed and the call answers: what it     *)
(* read so far is dropped if the limit was reached.                        *)
Answer ==
    /\ pc = "close"
    /\ open' = {}
    /\ pc' = "done" /\ result' = IF expired THEN "error" ELSE "ok"
    /\ UNCHANGED <<mode, processVars, taken, late, exited, expired, killed>>

Elapse ==
    /\ mode = "timed"
    /\ \/ late = "no" /\ late' = "deadline"
       \/ late = "deadline" /\ pc = "grace" /\ late' = "grace"
    /\ UNCHANGED <<mode, processVars, taken, open, exited, expired, pc, result, killed>>

Init ==
    /\ mode \in Modes
    /\ state = [p \in Members |-> IF p = "child" THEN "running" ELSE "absent"]
    /\ holds = [p \in Members |->
                  IF p = "child" /\ mode # "stream" THEN Pipes ELSE {}]
    /\ ignores \in {{}, {"child"}}
    /\ pending = [p \in Members |-> "none"]
    /\ written = [f \in Pipes |-> 0] /\ taken = [f \in Pipes |-> 0]
    /\ open = IF mode = "stream" THEN {} ELSE Pipes
    /\ late = "no"
    /\ exited = FALSE /\ expired = FALSE /\ killed = FALSE
    /\ pc = CASE mode = "timed" -> "loop" [] mode = "untimed" -> "drain"
              [] mode = "stream" -> "wait"
    /\ result = "none"

Caller ==
    \/ Drain \/ Wait
    \/ Loop \/ Poll \/ Watch \/ Term \/ Grace \/ Kill \/ ReapKilled \/ Answer
Program ==
    \/ \E p \in Members, f \in Pipes : Write(p, f) \/ CloseOutput(p, f)
    \/ Fork
    \/ \E p \in Members : Exit(p) \/ Abort(p)
\* Nothing is written to a pipe nobody reads.
Next ==
    \/ Caller
    \/ pc # "done" /\ Program
    \/ \E p \in Members : TakeSignal(p)
    \/ Interrupt \/ Elapse

(* The caller and the clock go on, and signals are taken.  Of the programs *)
(* no more is asked than that they get to write what they write and end:   *)
(* that they come to an end at all is a premise of DrainReturns.           *)
Fairness ==
    /\ WF_vars(Caller)
    /\ WF_vars(Elapse)
    /\ \A p \in Members :
         /\ WF_vars(TakeSignal(p))
         /\ WF_vars(pc # "done" /\ mode # "timed"
                    /\ ((\E f \in Pipes : Write(p, f)) \/ Exit(p)))

Spec == Init /\ [][Next]_vars /\ Fairness

---------------------------------------------------------------------------
(* Properties. *)

AllRead == \A f \in Pipes : taken[f] = written[f] /\ Ends(f)

(* An answer without a limit has all the output: everything that was       *)
(* written, with nobody left who could write more.  One with a limit is    *)
(* never what was read of a call that was cut short.                       *)
OutputWhole ==
    result = "ok" => (mode = "untimed" => AllRead) /\ ~expired

(* What the documentation of run with a limit says: a child that finishes  *)
(* in time "answers exactly as +run+ would", with all its output           *)
(* (src/src/stdlib/process.kex:173).                                       *)
AnswersAsRun ==
    result = "ok" /\ mode = "timed" /\ state["grandchild"] = "absent" => AllRead

(* However the call ends, the child has ended before it and was reaped: it *)
(* is neither left running nor left a zombie.                              *)
ChildReaped == result # "none" => state["child"] = "gone" /\ exited

(* The group is signalled by its number only while the child has not been  *)
(* reaped, so the number cannot have passed to a stranger.                 *)
KillsOwn == pc \in {"term", "kill"} => state["child"] # "gone"

(* Once SIGKILL was sent, nothing of the group lives on: not the child and *)
(* not what it had started.                                                *)
KilledWhole ==
    killed => \A p \in Members : Running(p) => pending[p] = "kill"

(* With a limit the call comes back, whatever the child and those it       *)
(* started do.  Without one it comes back when they end: no full pipe      *)
(* makes the caller and a writer wait for one another.                     *)
TimedReturns == mode = "timed" ~> result # "none"
DrainReturns == mode # "timed" ~> result # "none"
Returns == TimedReturns /\ DrainReturns

(* What makes the above inductive: a pipe the caller has done with has     *)
(* been read to its end, until a call with a limit closes what is left;    *)
(* and where the caller is says what it has done.                          *)
Drained ==
    mode = "untimed" \/ (mode = "timed" /\ result = "none") =>
        \A f \in Pipes \ open : taken[f] = written[f] /\ Ends(f)

Stages ==
    /\ exited <=> state["child"] = "gone"
    /\ pc \in {"grace", "reap"} => ~exited
    /\ pc \in {"term", "grace", "kill", "reap"} => expired
    /\ pc \in {"close", "done"} => exited
    /\ pc \in {"loop", "poll", "watch"} => ~expired
    /\ pc \in {"wait", "done"} => open = {}
    /\ pc \in {"drain", "wait"} => mode # "timed" /\ ~expired
    /\ pc \notin {"drain", "wait", "done"} => mode = "timed"
    /\ pc = "done" <=> result # "none"
    /\ result = "ok" => ~expired

Consistent == TypeOK /\ ChildReaped /\ KillsOwn /\ KilledWhole /\ Drained /\ Stages

(* No stray process outlives a call that timed out.  One does that ignores *)
(* SIGTERM when the child does not, and any whose child has ended before   *)
(* the deadline: TLC refutes this, and no run checks it.                   *)
NoStray ==
    result = "error" => \A p \in Members : Running(p) => pending[p] = "kill"
=============================================================================
