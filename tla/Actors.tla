------------------------------- MODULE Actors -------------------------------
(***************************************************************************)
(* Tasks, servers and supervisors on the interpreter's scheduler           *)
(* (startTask, awaitTaskMessage, startServer, callServer, castServer,      *)
(* startSupervisor in src/interpreter/scheduler.cxx; Task.await,           *)
(* Process.replyFrom, Supervisor.start in src/interpreter/stdlib).         *)
(*                                                                         *)
(* All three are processes of Scheduler whose fibers run a loop written in *)
(* C++ around Kex code.  They talk through ordinary mailboxes, in tagged   *)
(* envelopes, so a request and its answer are subject to everything a      *)
(* mailbox is: late answers, answers to a caller that has given up,        *)
(* envelopes in the mailbox of a process that is not a server.             *)
(***************************************************************************)
EXTENDS Scheduler

CONSTANTS
    Starts,      \* which of "task", "server", "supervisor" programs start
    NumWorkers,  \* the children in a Supervisor.start block
    PollDelay,   \* the supervisor's sleep between polls (50 ms)
    MaxCalls     \* bound: m_nextServerCall

Ref == 1 .. MaxCalls

Envelope(tag, id, from) == [tag |-> tag, id |-> id, from |-> from]
TaskResult(t)     == Envelope("task_result", t, NoProc)
ServerCall(r, p)  == Envelope("server_call", r, p)
ServerCast        == Envelope("server_cast", 0, NoProc)
ServerReply(r)    == Envelope("server_reply", r, NoProc)

Calls == {ServerCall(r, p) : r \in Ref, p \in Pid}
Envelopes == {TaskResult(t) : t \in Pid} \cup Calls \cup {ServerCast}
               \cup {ServerReply(r) : r \in Ref}
NoRequest == Envelope("none", 0, NoProc)

ASSUME ActorsAssumption ==
    /\ Envelopes \subseteq Message
    /\ Starts \subseteq {"task", "server", "supervisor"}
    /\ NumWorkers \in Nat \ {0}
    /\ PollDelay \in Nat
    /\ MaxCalls \in Nat

Serving == [kind |-> "serve", want |-> Message, deadline |-> Never, parked |-> FALSE]
Starting == [Body EXCEPT !.kind = "starting"]
Polling == [Body EXCEPT !.kind = "polling"]

VARIABLES
    role,       \* what each process was created as
    spawner,    \* the process a task's result goes to
    serving,    \* m_servingFrom and envelope: the request a slot is running
    held,       \* From values a server kept to answer later
    nextCall,   \* m_nextServerCall
    children,   \* childPids of a supervisor
    cursor,     \* the loop index of its poll
    collected,  \* history: tasks whose result has left its mailbox
    dropped,    \* history: requests whose slot returned without an answer, or
                \* that a receive of Kex code took out of a mailbox
    started,    \* history: <<supervisor, i, pid>>: i's block returned pid
    overdue     \* history: <<supervisor, i, pid>>: pid, its i-th child, was dead
                \* when its last poll began

actorVars == <<role, spawner, serving, held, nextCall, children, cursor,
               collected, dropped, started, overdue>>
allVars == <<vars, actorVars>>

InitActors ==
    /\ Init
    /\ role = [p \in Pid |-> "plain"]
    /\ spawner = [p \in Pid |-> NoProc]
    /\ serving = [p \in Pid |-> NoRequest]
    /\ held = [p \in Pid |-> {}]
    /\ nextCall = 1
    /\ children = [p \in Pid |-> <<>>]
    /\ cursor = [p \in Pid |-> 0]
    /\ collected = {}
    /\ dropped = {}
    /\ started = {}
    /\ overdue = {}

\* A process of its own kind: Launch, with its role.
LaunchAs(r, w) ==
    /\ Launch(w)
    /\ role' = [role EXCEPT ![nextId] = r]
    /\ UNCHANGED <<finished, error, firstCrash, mailbox, blocked, generation, woke,
                   timers, target, now, report, names>>

(***************************************************************************)
(* Tasks.                                                                  *)
(***************************************************************************)

\* Task.start { ... }
StartTask(p) ==
    /\ "task" \in Starts /\ InBody(p)
    /\ LaunchAs("task", Body)
    /\ spawner' = [spawner EXCEPT ![nextId] = p]
    /\ UNCHANGED <<current, serving, held, nextCall, children, cursor,
                   collected, dropped, started, overdue>>

\* Faulty: a task ends without sending its result.
TaskDoneSilently(p) ==
    /\ InBody(p) \/ InGuard(p)
    /\ role[p] = "task"
    /\ Exit(p, FALSE)
    /\ UNCHANGED <<nextId, waitVars, queueVars, target, now, report, names, actorVars>>

\* The block returns or throws: either way the task finishes without an error
\* and sends its outcome to its spawner.
TaskDone(p) ==
    /\ InBody(p) \/ InGuard(p)
    /\ role[p] = "task"
    /\ Exit(p, FALSE)
    /\ Deliver(spawner[p], TaskResult(p))
    /\ UNCHANGED <<nextId, generation, woke, wait, timers, target, now, report,
                   names, actorVars>>

\* Faulty: an await keeps the generation of the wait before it.
AwaitSameGeneration(p, t, d) ==
    /\ InBody(p) /\ Exists(t) /\ role[t] = "task"
    /\ BeginWaitSameGeneration(p, "await", {TaskResult(t)}, d)
    /\ UNCHANGED <<procVars, mailbox, blocked, woke, queueVars, driveVars, names,
                   actorVars>>

\* task.await(timeout: d)
Await(p, t, d) ==
    /\ InBody(p) /\ Exists(t) /\ role[t] = "task"
    /\ BeginWait(p, "await", {TaskResult(t)}, d)
    /\ UNCHANGED <<procVars, mailbox, blocked, woke, queueVars, driveVars, names,
                   actorVars>>

(***************************************************************************)
(* Servers.                                                                *)
(***************************************************************************)

\* Process.spawn(state) of a serving record
StartServer(p) ==
    /\ "server" \in Starts /\ InBody(p)
    /\ LaunchAs("server", Serving)
    /\ UNCHANGED <<current, spawner, serving, held, nextCall, children, cursor,
                   collected, dropped, started, overdue>>

InServeLoop(s) == current = s /\ wait[s].kind = "serve"

\* Faulty: the server yields without blockedOnReceive.
ServeIdleUnblocked(s) ==
    /\ InServeLoop(s) /\ mailbox[s] = <<>>
    /\ current' = NoProc
    /\ UNCHANGED <<procVars, waitVars, queueVars, target, now, report, names, actorVars>>

\* The mailbox is empty: block.  No new generation, and wokeByTimeout stays.
ServeIdle(s) ==
    /\ InServeLoop(s) /\ mailbox[s] = <<>>
    /\ blocked' = [blocked EXCEPT ![s] = TRUE]
    /\ current' = NoProc
    /\ UNCHANGED <<procVars, mailbox, generation, woke, wait, queueVars, target, now,
                   report, names, actorVars>>

\* The tasks whose results are in box.
Results(box) == {t \in Pid : \E i \in DOMAIN box : box[i] = TaskResult(t)}

\* Anything that is not a call or a cast is popped and forgotten.
ServeSkip(s) ==
    /\ InServeLoop(s) /\ mailbox[s] # <<>>
    /\ Head(mailbox[s]) \notin Calls \cup {ServerCast}
    /\ mailbox' = [mailbox EXCEPT ![s] = Tail(@)]
    /\ collected' = collected \cup (Results(mailbox[s]) \ Results(Tail(mailbox[s])))
    /\ UNCHANGED <<procVars, blocked, generation, woke, wait, queueVars, driveVars,
                   names, role, spawner, serving, held, nextCall, children, cursor,
                   dropped, started, overdue>>

\* Faulty: every message is taken for a request.
ServeTakeAnything(s) ==
    /\ InServeLoop(s) /\ mailbox[s] # <<>>
    /\ mailbox' = [mailbox EXCEPT ![s] = Tail(@)]
    /\ serving' = [serving EXCEPT ![s] = Head(mailbox[s])]
    /\ wait' = [wait EXCEPT ![s] = Body]
    /\ UNCHANGED <<procVars, blocked, generation, woke, queueVars, driveVars, names,
                   role, spawner, held, nextCall, children, cursor, collected,
                   dropped, started, overdue>>

\* The next call or cast leaves the mailbox and its slot runs.
ServeTake(s) ==
    /\ InServeLoop(s) /\ mailbox[s] # <<>>
    /\ Head(mailbox[s]) \in Calls \cup {ServerCast}
    /\ mailbox' = [mailbox EXCEPT ![s] = Tail(@)]
    /\ serving' = [serving EXCEPT ![s] = Head(mailbox[s])]
    /\ wait' = [wait EXCEPT ![s] = Body]
    /\ UNCHANGED <<procVars, blocked, generation, woke, queueVars, driveVars, names,
                   role, spawner, held, nextCall, children, cursor, collected,
                   dropped, started, overdue>>

\* Where the loop goes after a transition: a stop field ends the server.
AfterSlot(s, stop) ==
    /\ serving' = [serving EXCEPT ![s] = NoRequest]
    /\ IF stop
       THEN Exit(s, FALSE) /\ UNCHANGED wait
       ELSE /\ wait' = [wait EXCEPT ![s] = Serving]
            /\ UNCHANGED <<finished, error, firstCrash, current>>
    /\ UNCHANGED <<nextId, generation, woke, timers, target, now, report, names,
                   role, spawner, nextCall, children, cursor, collected, started, overdue>>

InSlot(s) == InBody(s) /\ role[s] = "server"

\* Faulty: a stop field ends the server before the reply is sent.
SlotReplyAfterStop(s, stop) ==
    /\ InSlot(s) /\ serving[s] \in Calls
    /\ IF stop
       THEN UNCHANGED <<mailbox, blocked, ready>>
       ELSE Deliver(serving[s].from, ServerReply(serving[s].id))
    /\ AfterSlot(s, stop)
    /\ UNCHANGED <<held, dropped>>

\* The transition has a reply: it is sent before a stop field is looked at.
SlotReply(s, stop) ==
    /\ InSlot(s) /\ serving[s] \in Calls
    /\ Deliver(serving[s].from, ServerReply(serving[s].id))
    /\ AfterSlot(s, stop)
    /\ UNCHANGED <<held, dropped>>

\* The transition has none, and the slot kept its From (Process.from).
SlotHold(s, stop) ==
    /\ InSlot(s) /\ serving[s] \in Calls
    /\ held' = [held EXCEPT ![s] = @ \cup {serving[s]}]
    /\ AfterSlot(s, stop)
    /\ UNCHANGED <<mailbox, blocked, ready, dropped>>

\* The transition has none, and nobody will ever answer; a cast wants none.
SlotDrop(s, stop) ==
    /\ InSlot(s)
    /\ dropped' = dropped \cup ({serving[s]} \cap Calls)
    /\ AfterSlot(s, stop)
    /\ UNCHANGED <<mailbox, blocked, ready, held>>

\* Process.replyFrom(from, value), in a later slot of the same server
ReplyFrom(s, request) ==
    /\ InSlot(s) /\ request \in held[s]
    /\ Deliver(request.from, ServerReply(request.id))
    /\ held' = [held EXCEPT ![s] = @ \ {request}]
    /\ UNCHANGED <<procVars, generation, woke, wait, timers, driveVars, names, role,
                   spawner, serving, nextCall, children, cursor, collected, dropped,
                   started, overdue>>

\* Faulty: the cast is queued, its server is not woken.
CastWithoutWake(p, s) ==
    /\ InBody(p) /\ role[s] = "server"
    /\ DeliverWithoutWake(s, ServerCast)
    /\ UNCHANGED <<procVars, generation, woke, wait, timers, driveVars, names, actorVars>>

\* castServer
Cast(p, s) ==
    /\ InBody(p) /\ role[s] = "server"
    /\ Deliver(s, ServerCast)
    /\ UNCHANGED <<procVars, generation, woke, wait, timers, driveVars, names, actorVars>>

\* Faulty: the request is queued, its server is not woken.
CallWithoutWake(p, s, d) ==
    /\ InBody(p) /\ role[s] = "server"
    /\ nextCall \in Ref
    /\ nextCall' = nextCall + 1
    /\ DeliverWithoutWake(s, ServerCall(nextCall, p))
    /\ IF Alive(s) THEN BeginWait(p, "call", {ServerReply(nextCall)}, d)
                   ELSE UNCHANGED <<generation, wait>>
    /\ UNCHANGED <<procVars, woke, timers, driveVars, names, role, spawner, serving,
                   held, children, cursor, collected, dropped, started, overdue>>

\* callServer: the request is sent and the caller waits for the reply that
\* carries its reference; a dead server answers Error(:no_process) at once.
Call(p, s, d) ==
    /\ InBody(p) /\ role[s] = "server"
    /\ nextCall \in Ref
    /\ nextCall' = nextCall + 1
    /\ Deliver(s, ServerCall(nextCall, p))
    /\ IF Alive(s) THEN BeginWait(p, "call", {ServerReply(nextCall)}, d)
                   ELSE UNCHANGED <<generation, wait>>
    /\ UNCHANGED <<procVars, woke, timers, driveVars, names, role, spawner, serving,
                   held, children, cursor, collected, dropped, started, overdue>>

(***************************************************************************)
(* Supervisors.                                                            *)
(***************************************************************************)

\* Supervisor.start(restart: :only_crashed) do worker { ... } end
StartSupervisor(p) ==
    /\ "supervisor" \in Starts /\ InBody(p)
    /\ LaunchAs("supervisor", Starting)
    /\ UNCHANGED <<current, spawner, serving, held, nextCall, children, cursor,
                   collected, dropped, started, overdue>>

\* A worker block: it spawns the i-th child and returns its pid.
RunBlock(s, i) ==
    /\ Launch(Body)
    /\ started' = started \cup {<<s, i, nextId>>}
    /\ UNCHANGED <<finished, error, firstCrash, mailbox, blocked, generation, woke,
                   timers, driveVars, names, role, spawner, serving, held, nextCall,
                   collected, dropped, overdue>>

StartChild(s) ==
    /\ current = s /\ wait[s].kind = "starting" /\ Len(children[s]) < NumWorkers
    /\ RunBlock(s, Len(children[s]) + 1)
    /\ children' = [children EXCEPT ![s] = Append(@, nextId)]
    /\ UNCHANGED cursor

\* Faulty: the timer is made for the wait before this one.
SleepForOldGeneration(p, d) ==
    /\ generation[p] < MaxWaits
    /\ now + d <= MaxClock
    /\ generation' = [generation EXCEPT ![p] = @ + 1]
    /\ timers' = timers \cup {[at |-> now + d, pid |-> p, gen |-> generation[p]]}
    /\ wait' = [wait EXCEPT ![p] = [kind |-> "sleep", want |-> {},
                                    deadline |-> now + d, parked |-> TRUE]]
    /\ blocked' = [blocked EXCEPT ![p] = TRUE]
    /\ woke' = [woke EXCEPT ![p] = FALSE]
    /\ current' = NoProc
    /\ UNCHANGED <<procVars, mailbox, ready, target, now, report, names>>

\* sleepFor: a timer, a block, and any wake ends it.
SleepFor(p, d) ==
    /\ generation[p] < MaxWaits
    /\ now + d <= MaxClock
    /\ generation' = [generation EXCEPT ![p] = @ + 1]
    /\ timers' = timers \cup {[at |-> now + d, pid |-> p, gen |-> generation[p] + 1]}
    /\ wait' = [wait EXCEPT ![p] = [kind |-> "sleep", want |-> {},
                                    deadline |-> now + d, parked |-> TRUE]]
    /\ blocked' = [blocked EXCEPT ![p] = TRUE]
    /\ woke' = [woke EXCEPT ![p] = FALSE]
    /\ current' = NoProc
    /\ UNCHANGED <<procVars, mailbox, ready, target, now, report, names>>

\* Faulty: the next poll starts where the last one ended.
SupervisorSleepsAtCursor(s) ==
    /\ current = s
    /\ \/ wait[s].kind = "starting" /\ Len(children[s]) = NumWorkers
       \/ wait[s].kind = "polling" /\ cursor[s] = NumWorkers
    /\ SleepFor(s, PollDelay)
    /\ UNCHANGED <<role, spawner, serving, held, nextCall, children, cursor, collected,
                   dropped, started, overdue>>

\* All blocks have run, or the poll has seen every child.
SupervisorSleeps(s) ==
    /\ current = s
    /\ \/ wait[s].kind = "starting" /\ Len(children[s]) = NumWorkers
       \/ wait[s].kind = "polling" /\ cursor[s] = NumWorkers
    /\ SleepFor(s, PollDelay)
    /\ cursor' = [cursor EXCEPT ![s] = 0]
    /\ UNCHANGED <<role, spawner, serving, held, nextCall, children, collected,
                   dropped, started, overdue>>

DeadChild(s, i) == i \in DOMAIN children[s] /\ ~Alive(children[s][i])

SleepOver(p) ==
    /\ current = p /\ wait[p].kind = "sleep"
    /\ woke' = [woke EXCEPT ![p] = FALSE]
    /\ wait' = [wait EXCEPT ![p] = Polling]
    /\ overdue' = {x \in overdue : x[1] # p}
                     \cup {<<p, i, children[p][i]>> : i \in {j \in 1 .. NumWorkers : DeadChild(p, j)}}
    /\ UNCHANGED <<procVars, mailbox, blocked, generation, queueVars, driveVars, names,
                   role, spawner, serving, held, nextCall, children, cursor, collected,
                   dropped, started>>

AtChild(s) == current = s /\ wait[s].kind = "polling" /\ cursor[s] < NumWorkers

PollAlive(s) ==
    /\ AtChild(s) /\ Alive(children[s][cursor[s] + 1])
    /\ cursor' = [cursor EXCEPT ![s] = @ + 1]
    /\ UNCHANGED <<vars, role, spawner, serving, held, nextCall, children, collected,
                   dropped, started, overdue>>

\* Faulty: every child is replaced, dead or not.
RespawnAlways(s) ==
    /\ AtChild(s)
    /\ RunBlock(s, cursor[s] + 1)
    /\ children' = [children EXCEPT ![s][cursor[s] + 1] = nextId]
    /\ cursor' = [cursor EXCEPT ![s] = @ + 1]

\* The child has finished, by a crash or normally: its block runs again.
Respawn(s) ==
    /\ AtChild(s) /\ ~Alive(children[s][cursor[s] + 1])
    /\ RunBlock(s, cursor[s] + 1)
    /\ children' = [children EXCEPT ![s][cursor[s] + 1] = nextId]
    /\ cursor' = [cursor EXCEPT ![s] = @ + 1]

\* The block throws: the exception is swallowed and the supervisor is over.
RespawnFails(s) ==
    /\ AtChild(s) /\ ~Alive(children[s][cursor[s] + 1])
    /\ Exit(s, FALSE)
    /\ UNCHANGED <<nextId, waitVars, queueVars, target, now, report, names, actorVars>>

\* A bound of the instance, not of the code: the supervisor would go on, but
\* no process, no wait or no instant is left.  It gives the thread back.
SupervisorAtBound(s) ==
    /\ current = s /\ wait[s].kind \in {"starting", "polling"}
    /\ \/ nextId = MaxProcs
       \/ generation[s] = MaxWaits
       \/ now + PollDelay > MaxClock
    /\ ready' = Append(ready, s)
    /\ current' = NoProc
    /\ UNCHANGED <<procVars, waitVars, timers, names, target, now, report, actorVars>>

(***************************************************************************)
(* The system.                                                             *)
(***************************************************************************)
Actor(p) ==
    \/ StartTask(p) \/ StartServer(p) \/ StartSupervisor(p)
    \/ \E t \in Pid, d \in Delays \cup {Never} : Await(p, t, d)
    \/ \E s \in Pid : Cast(p, s)
    \/ \E s \in Pid, d \in Delays \cup {Never} : Call(p, s, d)

Leave(p) ==
    \/ role[p] = "plain" /\ Finish(p) /\ UNCHANGED actorVars
    \/ role[p] \in {"plain", "server"} /\ Crash(p) /\ UNCHANGED actorVars
    \/ TaskDone(p)

Server(s) ==
    \/ ServeIdle(s) \/ ServeSkip(s) \/ ServeTake(s)
    \/ \E stop \in BOOLEAN : SlotReply(s, stop) \/ SlotHold(s, stop) \/ SlotDrop(s, stop)
    \/ \E request \in Calls : ReplyFrom(s, request)

Supervisor(s) ==
    \/ StartChild(s) \/ SupervisorSleeps(s) \/ SleepOver(s) \/ PollAlive(s)
    \/ Respawn(s) \/ RespawnFails(s) \/ SupervisorAtBound(s)

\* The requests in box.
Requests(box) == {c \in Calls : Occurs(c, box)}

\* A scan that ends with a task's result collects it; one that ends with a
\* request, which a receive may, keeps it from the serve loop.
ScanActors(p) ==
    /\ Scan(p)
    /\ collected' = collected \cup (Results(mailbox[p]) \ Results(mailbox'[p]))
    /\ dropped' = dropped \cup (Requests(mailbox[p]) \ Requests(mailbox'[p]))
    /\ UNCHANGED <<role, spawner, serving, held, nextCall, children, cursor,
                   started, overdue>>

NextActors ==
    \/ Drive /\ UNCHANGED actorVars
    \/ \E p \in Pid :
         \/ Operate(p) /\ UNCHANGED actorVars
         \/ ScanActors(p) \/ Actor(p) \/ Leave(p) \/ Server(p) \/ Supervisor(p)

ActorsSpec == InitActors /\ [][NextActors]_allVars

\* On top of Scheduler's: a server's and a supervisor's loop end their turn.
ActorsFairSpec ==
    /\ ActorsSpec
    /\ WF_allVars((EndLine \/ FireTimeout \/ Resume \/ SleepUntil \/ ReportStuck)
                  /\ UNCHANGED actorVars)
    /\ SF_allVars(Advance /\ UNCHANGED actorVars)
    /\ \A p \in Pid :
         /\ WF_allVars(ScanActors(p))
         /\ WF_allVars(Preempt(p) /\ UNCHANGED actorVars)
         /\ WF_allVars(Supervisor(p))
         /\ WF_allVars(ServeIdle(p) \/ ServeSkip(p) \/ ServeTake(p))

(***************************************************************************)
(* Properties.                                                             *)
(***************************************************************************)
ActorsTypeOK ==
    /\ TypeOK
    /\ role \in [Pid -> {"plain", "task", "server", "supervisor"}]
    /\ spawner \in [Pid -> Pid \cup {NoProc}]
    /\ serving \in [Pid -> Calls \cup {ServerCast, NoRequest}]
    /\ held \in [Pid -> SUBSET Calls]
    /\ nextCall \in 1 .. (MaxCalls + 1)
    /\ children \in [Pid -> Seq(Pid)]
    /\ cursor \in [Pid -> 0 .. NumWorkers]
    /\ collected \subseteq Pid
    /\ dropped \subseteq Calls
    /\ started \subseteq Pid \X (1 .. NumWorkers) \X Pid
    /\ overdue \subseteq Pid \X (1 .. NumWorkers) \X Pid

\* Where the loops written in C++ stand: a server that waits for its next
\* request has none, nor has a process still to come, which is in no wait; a
\* supervisor that polls or sleeps has all its children, which are processes, and
\* it sleeps before the first of them.
Loop(p) ==
    /\ wait[p].kind = "serve" => wait[p] = Serving
    /\ ~Exists(p) => wait[p].kind = "body"
    /\ wait[p].kind = "serve" \/ ~Exists(p) => serving[p] = NoRequest
    /\ wait[p].kind \in {"starting", "sleep", "polling"} => role[p] = "supervisor"
    /\ wait[p].kind \in {"sleep", "polling"} => Len(children[p]) = NumWorkers
    /\ wait[p].kind = "sleep" => cursor[p] = 0
    /\ \A i \in DOMAIN children[p] : Exists(children[p][i])

Loops == \A p \in Pid : Loop(p)

\* The types, where the loops stand, and the promises Scheduler makes, under the
\* actors' own traffic: a server's yield, a supervisor's sleep and an await block
\* by other means than receive, and are woken by the same ones.
ActorsConsistent ==
    /\ ActorsTypeOK /\ Loops
    /\ Consistent /\ OneHome /\ NoLostWakeup /\ TimeoutNotEarly /\ StuckIsReal

\* Where p's request r can be: queued at a server, run by a slot (or by one that
\* crashed), kept by a server as a From, or dropped.
Requested(r, p) ==
    \/ \E s \in Pid : Occurs(ServerCall(r, p), mailbox[s])
    \/ \E s \in Pid : ServerCall(r, p) \in held[s] \cup {serving[s]}
    \/ ServerCall(r, p) \in dropped

\* A request a caller is blocked on is never lost on the way: it is queued at
\* a server, or a slot is running it (or crashed in it), or a server kept its
\* From, or its slot chose to return without an answer, or Kex code received it
\* in the server's stead.  An answered caller is not blocked.
CallAccounted ==
    \A p \in Pid : blocked[p] /\ wait[p].kind = "call" =>
      \A r \in Ref : ServerReply(r) \in wait[p].want => Requested(r, p)

\* A caller that has not looked yet may have its answer in its mailbox instead.
CallsTracked ==
    \A p \in Pid : Alive(p) /\ wait[p].kind = "call" =>
      \A r \in Ref : ServerReply(r) \in wait[p].want =>
        Requested(r, p) \/ Occurs(ServerReply(r), mailbox[p])

\* The process that started a task and is blocked awaiting it is waiting for a
\* task that still runs, unless the one result it gets was already taken out
\* of its mailbox: by an earlier await, or by its own serve loop.
AwaitNotStranded ==
    \A p, t \in Pid :
      blocked[p] /\ wait[p].kind = "await" /\ TaskResult(t) \in wait[p].want
        /\ spawner[t] = p => Alive(t) \/ t \in collected

\* The result of a task that has ended is in its spawner's mailbox, while that
\* lives, until it is taken out.
ResultsTracked ==
    \A t \in Pid : spawner[t] # NoProc =>
      /\ Exists(t) /\ role[t] = "task" /\ Exists(spawner[t])
      /\ \/ Alive(t) \/ t \in collected
         \/ Alive(spawner[t]) => Occurs(TaskResult(t), mailbox[spawner[t]])

\* A supervisor never has two live children of one worker block.
OneLiveChild ==
    \A x, y \in started :
      x[1] = y[1] /\ x[2] = y[2] /\ Alive(x[3]) /\ Alive(y[3]) => x = y

\* The live child of a block is the one its supervisor polls.
ChildrenTracked ==
    \A x \in started :
      /\ Exists(x[3])
      /\ Alive(x[3]) => x[2] \in DOMAIN children[x[1]] /\ children[x[1]][x[2]] = x[3]

\* A poll replaces every child that was dead when it began: when the supervisor
\* sleeps again, none of them is its child any more.
PollReplaces ==
    \A x \in overdue :
      Alive(x[1]) /\ wait[x[1]].kind = "sleep" => children[x[1]][x[2]] # x[3]

\* A child that was dead when the poll began is replaced when the poll passes it.
OverdueTracked ==
    \A x \in overdue :
      /\ Exists(x[1]) /\ Exists(x[3]) /\ ~Alive(x[3])
      /\ wait[x[1]].kind \in {"sleep", "polling"}
      /\ wait[x[1]].kind = "sleep" \/ x[2] <= cursor[x[1]]
           => children[x[1]][x[2]] # x[3]

\* While lines are driven, a supervisor always wakes from its sleep: nothing that
\* happens in between takes its timer away.
SupervisorWakes ==
    \A s \in Pid : wait[s].kind = "sleep" ~> (wait[s].kind # "sleep" \/ target = NoProc)
=============================================================================
