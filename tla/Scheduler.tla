------------------------------ MODULE Scheduler ------------------------------
(***************************************************************************)
(* The interpreter's cooperative process scheduler                         *)
(* (src/interpreter/scheduler.cxx, scheduler.hxx).                         *)
(*                                                                         *)
(* One OS thread runs every Kex process as a fiber.  Exactly one of three  *)
(* parties holds the thread:                                               *)
(*   - nobody (target = NoProc): the embedder is between two lines of a    *)
(*     program or of a REPL session;                                       *)
(*   - the driver loop (target # NoProc, current = NoProc);                *)
(*   - the process current.                                                *)
(* A process gives the thread back only by finishing, by blocking in a     *)
(* wait or at a reduction boundary, so everything it does in between is    *)
(* atomic for the others.  What a process computes is left open: between   *)
(* two yields it may call any scheduler operation, in any order.           *)
(*                                                                         *)
(* This module has the process table, the ready queue, the timers, the     *)
(* driver, and the operations behind spawn, send, receive and              *)
(* Process.register.  Actors adds tasks, servers and supervisors.          *)
(***************************************************************************)
EXTENDS Integers, SequencesExt

CONSTANTS
    Message,     \* everything a mailbox can hold
    Sent,        \* the messages Kex code sends with Process.send
    Wants,       \* the sets of messages a receive's clauses can accept
    Delays,      \* the millisecond values of an after clause
    Names,       \* the atoms Process.register is called with
    MaxProcs,    \* bound: processes ever created
    MaxWaits,    \* bound: waits one process ever begins
    MaxMailbox,  \* bound: messages queued at one process
    MaxClock     \* bound: the last instant of the steady clock

ASSUME SchedulerAssumption ==
    /\ Sent \subseteq Message
    /\ Wants \subseteq SUBSET Message
    /\ Delays \subseteq Nat
    /\ MaxProcs \in Nat \ {0}
    /\ MaxWaits \in Nat
    /\ MaxMailbox \in Nat
    /\ MaxClock \in Nat

Pid == 0 .. (MaxProcs - 1)
NoProc == -1
Never == -1
Time == 0 .. MaxClock

\* Where a fiber stands.  "body" is Kex code; the rest are the scheduler's own
\* loops: receive (blockingReceive), call (callServer), await
\* (awaitTaskMessage), sleep (sleepFor), serve (the server loop), starting and
\* polling (the supervisor's).
WaitKinds ==
    {"body", "receive", "call", "await", "sleep", "serve", "starting", "polling"}

\* The locals of a wait: what ends it, its deadline, and parked: whether it
\* has blocked yet.  timeoutRegistered is parked /\ deadline # Never.
Wait == [kind : WaitKinds, want : SUBSET Message,
         deadline : Time \cup {Never}, parked : BOOLEAN]

Body == [kind |-> "body", want |-> {}, deadline |-> Never, parked |-> FALSE]

Timer == [at : Time, pid : Pid, gen : 0 .. MaxWaits]

Report == [kind : {"none", "ok", "error", "stuck"}, cause : Pid \cup {NoProc}]

VARIABLES
    nextId,      \* m_nextId: the processes below it exist, none is ever erased
    finished,    \* Process::finished
    error,       \* whether Process::error is set
    mailbox,     \* Process::mailbox
    blocked,     \* Process::blockedOnReceive
    generation,  \* Process::waitGeneration
    woke,        \* Process::wokeByTimeout
    wait,        \* the suspended fiber: which wait it is in, and its locals
    ready,       \* m_ready
    timers,      \* m_timeouts
    names,       \* m_names
    current,     \* m_current while a fiber runs, else NoProc
    target,      \* the root process driveUntilFinished waits for
    now,         \* std::chrono::steady_clock
    firstCrash,  \* history: the first process that died with an error
    report       \* how the last line ended, and whose error was reported

procVars  == <<nextId, finished, error, firstCrash>>
waitVars  == <<mailbox, blocked, generation, woke, wait>>
queueVars == <<ready, timers>>
driveVars == <<current, target, now, report>>
vars == <<procVars, waitVars, queueVars, driveVars, names>>

Exists(p) == p \in 0 .. (nextId - 1)
Alive(p)  == Exists(p) /\ ~finished[p]

Init ==
    /\ nextId = 0
    /\ finished = [p \in Pid |-> FALSE]
    /\ error = [p \in Pid |-> FALSE]
    /\ mailbox = [p \in Pid |-> <<>>]
    /\ blocked = [p \in Pid |-> FALSE]
    /\ generation = [p \in Pid |-> 0]
    /\ woke = [p \in Pid |-> FALSE]
    /\ wait = [p \in Pid |-> Body]
    /\ ready = <<>>
    /\ timers = {}
    /\ names = [n \in Names |-> NoProc]
    /\ current = NoProc
    /\ target = NoProc
    /\ now = 0
    /\ firstCrash = NoProc
    /\ report = [kind |-> "none", cause |-> NoProc]

(***************************************************************************)
(* The parts the operations share.                                         *)
(***************************************************************************)

\* emplace and push_back: a new process is ready, and starts in wait w.
Launch(w) ==
    /\ nextId < MaxProcs
    /\ nextId' = nextId + 1
    /\ ready' = Append(ready, nextId)
    /\ wait' = [wait EXCEPT ![nextId] = w]

\* Faulty: a message always enqueues its target.
DeliverAlwaysQueues(q, m) ==
    IF Alive(q)
    THEN /\ Len(mailbox[q]) < MaxMailbox
         /\ mailbox' = [mailbox EXCEPT ![q] = Append(@, m)]
         /\ blocked' = [blocked EXCEPT ![q] = FALSE]
         /\ ready' = Append(ready, q)
    ELSE UNCHANGED <<mailbox, blocked, ready>>

\* Faulty: a message wakes nobody.
DeliverWithoutWake(q, m) ==
    IF Alive(q)
    THEN /\ Len(mailbox[q]) < MaxMailbox
         /\ mailbox' = [mailbox EXCEPT ![q] = Append(@, m)]
         /\ UNCHANGED <<blocked, ready>>
    ELSE UNCHANGED <<mailbox, blocked, ready>>

\* Scheduler::send.  The result is false, and nothing changes, when the
\* target is missing or finished.
Deliver(q, m) ==
    IF Alive(q)
    THEN /\ Len(mailbox[q]) < MaxMailbox
         /\ mailbox' = [mailbox EXCEPT ![q] = Append(@, m)]
         /\ blocked' = [blocked EXCEPT ![q] = FALSE]
         /\ ready' = IF blocked[q] THEN Append(ready, q) ELSE ready
    ELSE UNCHANGED <<mailbox, blocked, ready>>

\* The fiber's entry function returns: after a value, or after an exception
\* that escaped the body.
Exit(p, crashed) ==
    /\ finished' = [finished EXCEPT ![p] = TRUE]
    /\ error' = [error EXCEPT ![p] = crashed]
    /\ firstCrash' = IF crashed /\ firstCrash = NoProc THEN p ELSE firstCrash
    /\ current' = NoProc

\* Faulty: no ++waitGeneration.
BeginWaitSameGeneration(p, kind, want, d) ==
    /\ d # Never => now + d <= MaxClock
    /\ wait' = [wait EXCEPT ![p] =
                  [kind |-> kind, want |-> want, parked |-> FALSE,
                   deadline |-> IF d = Never THEN Never ELSE now + d]]
    /\ UNCHANGED generation

\* ++waitGeneration: a wait that ends with a message of want, or d
\* milliseconds from now.
BeginWait(p, kind, want, d) ==
    /\ generation[p] < MaxWaits
    /\ d # Never => now + d <= MaxClock
    /\ generation' = [generation EXCEPT ![p] = @ + 1]
    /\ wait' = [wait EXCEPT ![p] =
                  [kind |-> kind, want |-> want, parked |-> FALSE,
                   deadline |-> IF d = Never THEN Never ELSE now + d]]

(***************************************************************************)
(* The driver (runToCompletion, driveUntilFinished, resumeProcess,         *)
(* fireExpiredTimeouts).                                                   *)
(***************************************************************************)
Driving == target # NoProc /\ current = NoProc /\ ~finished[target]

Expired == {t \in timers : t.at <= now}

\* Faulty: any timer of a blocked process is live.
LiveAnyGeneration(t) == Alive(t.pid) /\ blocked[t.pid]

\* Faulty: the generation is compared with the one before the wait began.
LiveOldGeneration(t) ==
    Alive(t.pid) /\ blocked[t.pid] /\ generation[t.pid] = t.gen - 1

\* A timer is live for the wait it was made for, while that wait is blocked.
Live(t) == Alive(t.pid) /\ blocked[t.pid] /\ generation[t.pid] = t.gen

\* The next line: its body becomes a fresh process.
StartLine ==
    /\ target = NoProc
    /\ Launch(Body)
    /\ target' = nextId
    /\ report' = [kind |-> "none", cause |-> NoProc]
    /\ UNCHANGED <<finished, error, firstCrash, mailbox, blocked, generation,
                   woke, timers, names, current, now>>

\* The target finished: its value is returned, or its error rethrown.  The
\* other processes stay as they are for the next line.
EndLine ==
    /\ target # NoProc /\ current = NoProc /\ finished[target]
    /\ report' = IF error[target] THEN [kind |-> "error", cause |-> target]
                                  ELSE [kind |-> "ok", cause |-> NoProc]
    /\ target' = NoProc
    /\ UNCHANGED <<procVars, waitVars, queueVars, names, current, now>>

\* Faulty: the process is enqueued and stays blocked.
FireTimeoutStaysBlocked ==
    /\ Driving
    /\ \E t \in Expired :
         /\ \A u \in Expired : t.at <= u.at
         /\ timers' = timers \ {t}
         /\ IF Live(t)
            THEN /\ woke' = [woke EXCEPT ![t.pid] = TRUE]
                 /\ ready' = Append(ready, t.pid)
            ELSE UNCHANGED <<woke, ready>>
    /\ UNCHANGED <<procVars, mailbox, blocked, generation, wait, driveVars, names>>

\* One turn of the loop in fireExpiredTimeouts: the earliest expired timer
\* leaves m_timeouts, and wakes its process if it is still the one waiting.
FireTimeout ==
    /\ Driving
    /\ \E t \in Expired :
         /\ \A u \in Expired : t.at <= u.at
         /\ timers' = timers \ {t}
         /\ IF Live(t)
            THEN /\ blocked' = [blocked EXCEPT ![t.pid] = FALSE]
                 /\ woke' = [woke EXCEPT ![t.pid] = TRUE]
                 /\ ready' = Append(ready, t.pid)
            ELSE UNCHANGED <<blocked, woke, ready>>
    /\ UNCHANGED <<procVars, mailbox, generation, wait, driveVars, names>>

\* The front of the ready queue gets the thread.
Resume ==
    /\ Driving /\ Expired = {} /\ ready # <<>>
    /\ ready' = Tail(ready)
    /\ current' = IF Alive(Head(ready)) THEN Head(ready) ELSE NoProc
    /\ UNCHANGED <<procVars, waitVars, timers, names, target, now, report>>

\* Nothing is ready, a timer is pending: sleep_until the earliest one.  The
\* thread may wake late.
SleepUntil ==
    /\ Driving /\ Expired = {} /\ ready = <<>>
    /\ \E t \in timers : \A u \in timers : t.at <= u.at /\ now' \in t.at .. MaxClock
    /\ UNCHANGED <<procVars, waitVars, queueVars, names, current, target, report>>

\* firstProcessError: the error of the lowest process id that has one.
FirstProcessError(cause) ==
    IF \E p \in Pid : error[p]
    THEN cause \in Pid /\ error[cause] /\ \A p \in Pid : error[p] => cause <= p
    ELSE cause = NoProc

\* Nothing is ready and nothing is pending: the driver throws, either that
\* error or "deadlock: no process is runnable" (cause = NoProc).
ReportStuck ==
    /\ Driving /\ ready = <<>> /\ timers = {}
    /\ \E cause \in Pid \cup {NoProc} :
         /\ FirstProcessError(cause)
         /\ report' = [kind |-> "stuck", cause |-> cause]
    /\ target' = NoProc
    /\ UNCHANGED <<procVars, waitVars, queueVars, names, current, now>>

\* The clock runs while a process does, and between lines.
Advance ==
    /\ current # NoProc \/ target = NoProc
    /\ now < MaxClock
    /\ now' = now + 1
    /\ UNCHANGED <<procVars, waitVars, queueVars, names, current, target, report>>

(***************************************************************************)
(* What the running process does.                                          *)
(***************************************************************************)
InBody(p) == current = p /\ wait[p].kind = "body"

Matching(p) == {i \in DOMAIN mailbox[p] : mailbox[p][i] \in wait[p].want}

TimedOut(p) == wait[p].parked /\ woke[p]

\* The waits that scan: each is a loop of the same shape in the code.
ScanKinds == {"receive", "call", "await"}

Scanning(p) == current = p /\ wait[p].kind \in ScanKinds /\ ~TimedOut(p)

\* A receive clause's guard is Kex code too: it calls functions, it can throw.
InGuard(p) == Scanning(p) /\ wait[p].kind = "receive" /\ mailbox[p] # <<>>

\* spawn do ... end
Spawn(p) ==
    /\ InBody(p)
    /\ Launch(Body)
    /\ UNCHANGED <<finished, error, firstCrash, mailbox, blocked, generation,
                   woke, timers, driveVars, names>>

\* pid.send(m)
Send(p, q, m) ==
    /\ InBody(p) /\ Exists(q)
    /\ Deliver(q, m)
    /\ UNCHANGED <<procVars, generation, woke, wait, timers, driveVars, names>>

\* receive do ... after timeout: d end: the deadline is taken once, up front.
Receive(p, want, d) ==
    /\ InBody(p)
    /\ BeginWait(p, "receive", want, d)
    /\ UNCHANGED <<procVars, mailbox, blocked, woke, queueVars, driveVars, names>>

\* Process.register(pid, name)
RegisterName(p, q, n) ==
    /\ InBody(p) /\ Exists(q)
    /\ names' = [names EXCEPT ![n] = q]
    /\ UNCHANGED <<procVars, waitVars, queueVars, driveVars>>

\* Faulty: the process yields without being enqueued.
PreemptUnqueued(p) ==
    /\ InBody(p)
    /\ current' = NoProc
    /\ UNCHANGED <<procVars, waitVars, queueVars, names, target, now, report>>

\* Faulty: the process goes to the front of the queue.
PreemptToFront(p) ==
    /\ InBody(p)
    /\ ready' = <<p>> \o ready
    /\ current' = NoProc
    /\ UNCHANGED <<procVars, waitVars, timers, names, target, now, report>>

\* tickReduction: the reduction budget is spent, the process goes to the back.
Preempt(p) ==
    /\ InBody(p)
    /\ ready' = Append(ready, p)
    /\ current' = NoProc
    /\ UNCHANGED <<procVars, waitVars, timers, names, target, now, report>>

Finish(p) ==
    /\ InBody(p)
    /\ Exit(p, FALSE)
    /\ UNCHANGED <<nextId, waitVars, queueVars, names, target, now, report>>

\* An exception escapes.
Crash(p) ==
    /\ InBody(p) \/ InGuard(p)
    /\ Exit(p, TRUE)
    /\ UNCHANGED <<nextId, waitVars, queueVars, names, target, now, report>>

(***************************************************************************)
(* The loop of a selective wait: scan the mailbox in arrival order, block  *)
(* when nothing matches, scan again on every wake.                         *)
(***************************************************************************)
\* The first match leaves the mailbox and the wait is over.
ScanHit(p) ==
    /\ Scanning(p)
    /\ \E i \in Matching(p) :
         /\ \A j \in Matching(p) : i <= j
         /\ mailbox' = [mailbox EXCEPT ![p] = RemoveAt(@, i)]
    /\ wait' = [wait EXCEPT ![p] = Body]
    /\ UNCHANGED <<procVars, blocked, generation, woke, queueVars, driveVars, names>>

\* Faulty: the generation is read before it is increased a second time.
ArmNextGeneration(p) ==
    IF wait[p].deadline # Never /\ ~wait[p].parked
    THEN timers \cup {[at |-> wait[p].deadline, pid |-> p, gen |-> generation[p] + 1]}
    ELSE timers

\* The timer a wait registers, once, the first time it blocks.
Arm(p) ==
    IF wait[p].deadline # Never /\ ~wait[p].parked
    THEN timers \cup {[at |-> wait[p].deadline, pid |-> p, gen |-> generation[p]]}
    ELSE timers

ScanMiss(p) ==
    /\ Scanning(p) /\ Matching(p) = {}
    /\ timers' = Arm(p)
    /\ wait' = [wait EXCEPT ![p].parked = TRUE]
    /\ blocked' = [blocked EXCEPT ![p] = TRUE]
    /\ woke' = [woke EXCEPT ![p] = FALSE]
    /\ current' = NoProc
    /\ UNCHANGED <<procVars, mailbox, generation, ready, names, target, now, report>>

\* The budget is spent in a guard.
ScanPreempt(p) ==
    /\ InGuard(p)
    /\ ready' = Append(ready, p)
    /\ current' = NoProc
    /\ UNCHANGED <<procVars, waitVars, timers, names, target, now, report>>

\* Woken by the deadline: the after body, or the caller's timeout result,
\* without another look at the mailbox.
TimeoutBranch(p) ==
    /\ current = p /\ wait[p].kind \in ScanKinds /\ TimedOut(p)
    /\ woke' = [woke EXCEPT ![p] = FALSE]
    /\ wait' = [wait EXCEPT ![p] = Body]
    /\ UNCHANGED <<procVars, mailbox, blocked, generation, queueVars, driveVars, names>>

(***************************************************************************)
(* Programs that spawn, send, receive and register.                        *)
(***************************************************************************)
\* The session is over: no line is running and no process can be created.
SessionOver == target = NoProc /\ nextId = MaxProcs /\ UNCHANGED vars

Drive == \/ StartLine \/ EndLine \/ FireTimeout \/ Resume
         \/ SleepUntil \/ ReportStuck \/ Advance \/ SessionOver

Scan(p) == ScanHit(p) \/ ScanMiss(p) \/ ScanPreempt(p) \/ TimeoutBranch(p)

Operate(p) ==
    \/ Spawn(p)
    \/ \E q \in Pid, m \in Sent : Send(p, q, m)
    \/ \E want \in Wants, d \in Delays \cup {Never} : Receive(p, want, d)
    \/ \E q \in Pid, n \in Names : RegisterName(p, q, n)
    \/ Preempt(p)

Next == \/ Drive
        \/ \E p \in Pid : Scan(p) \/ Operate(p) \/ Finish(p) \/ Crash(p)

Spec == Init /\ [][Next]_vars

\* The driver loop never stops between two iterations, the clock runs, and a
\* process keeps the thread for a bounded time: a function call every so often
\* spends its reductions (kReductionBudget), and a scan ends.
Fairness ==
    /\ WF_vars(EndLine \/ FireTimeout \/ Resume \/ SleepUntil \/ ReportStuck)
    /\ SF_vars(Advance)
    /\ \A p \in Pid : WF_vars(Scan(p)) /\ WF_vars(Preempt(p))

FairSpec == Spec /\ Fairness

(***************************************************************************)
(* Properties.                                                             *)
(***************************************************************************)
TypeOK ==
    /\ nextId \in 0 .. MaxProcs
    /\ finished \in [Pid -> BOOLEAN]
    /\ error \in [Pid -> BOOLEAN]
    /\ mailbox \in [Pid -> Seq(Message)]
    /\ blocked \in [Pid -> BOOLEAN]
    /\ generation \in [Pid -> 0 .. MaxWaits]
    /\ woke \in [Pid -> BOOLEAN]
    /\ wait \in [Pid -> Wait]
    /\ ready \in Seq(Pid)
    /\ timers \in SUBSET Timer
    /\ names \in [Names -> Pid \cup {NoProc}]
    /\ current \in Pid \cup {NoProc}
    /\ target \in Pid \cup {NoProc}
    /\ now \in Time
    /\ firstCrash \in Pid \cup {NoProc}
    /\ report \in Report

Occurs(p, q) == \E i \in DOMAIN q : q[i] = p
NoRepeat(q) == \A i, j \in DOMAIN q : q[i] = q[j] => i = j

Queued(p) == Occurs(p, ready)

\* The ready queue never holds a process twice, however many messages,
\* timeouts and preemptions come in between.
ReadyOnce == NoRepeat(ready)

\* A live process is in exactly one place: it has the thread, or it is in the
\* ready queue, or it is blocked and something has to wake it.  A process in
\* none of them would be lost; one in two of them would be resumed twice.
\* Finished and future processes are in none.
OneHome ==
    \A p \in Pid :
      IF Alive(p)
      THEN \/ current = p /\ ~Queued(p) /\ ~blocked[p]
           \/ current # p /\ Queued(p) /\ ~blocked[p]
           \/ current # p /\ ~Queued(p) /\ blocked[p]
      ELSE current # p /\ ~Queued(p) /\ ~blocked[p]

\* No lost wakeup: a process blocked in a wait has no message in its mailbox
\* that would end that wait.
NoLostWakeup == \A p \in Pid : blocked[p] => Matching(p) = {}

\* A wait that ends by its timeout branch has a deadline, and it has passed: a
\* timer left over from an earlier wait never ends a later one.
TimeoutNotEarly ==
    \A p \in Pid : TimedOut(p) => wait[p].deadline # Never /\ wait[p].deadline <= now

\* The driver reports a stuck line only when no live process can ever run
\* again: each is blocked, with nothing in its mailbox that it waits for.
StuckIsReal ==
    report.kind = "stuck" =>
      \A p \in Pid : Alive(p) => blocked[p] /\ Matching(p) = {}

\* A deadline that is in m_timeouts is kept: while lines are driven, the
\* process that blocked under it is woken.
PendingTimerFires ==
    \A p \in Pid :
      (blocked[p] /\ \E t \in timers : t.pid = p /\ t.gen = generation[p])
        ~> (~blocked[p] \/ target = NoProc)

\* A process in the ready queue gets the thread while a line is driven: it
\* cannot be starved by processes that are preempted and requeued for ever.
ReadyRuns == \A p \in Pid : Queued(p) ~> (current = p \/ target = NoProc)

\* The type invariant and what the safety properties rest on: the ready queue
\* never holds a process twice; a process that does not exist has not finished;
\* only a process parked in a wait, or a server with nothing to do, is blocked; a
\* timer is never ahead of its process's waits, and one made for the current wait
\* carries that wait's deadline; fibers run only under a line, and a line that has
\* a report is over.  The same holds of Actors, whose waits are these as well.
Unborn == \A p \in Pid : p >= nextId => ~finished[p]

\* The waits that park, and register their deadline when they do.
TimedKinds == ScanKinds \cup {"sleep"}

BlockedInWait ==
    \A p \in Pid : blocked[p] =>
      \/ wait[p].kind \in TimedKinds /\ wait[p].parked
      \/ wait[p].kind = "serve" /\ ~wait[p].parked

TimersOwned ==
    \A t \in timers :
      /\ t.gen <= generation[t.pid]
      /\ t.gen = generation[t.pid] /\ wait[t.pid].kind \in TimedKinds
           => wait[t.pid].parked /\ t.at = wait[t.pid].deadline

LineOpen ==
    /\ current # NoProc => target # NoProc
    /\ report.kind # "none" => target = NoProc

Consistent ==
    TypeOK /\ ReadyOnce /\ Unborn /\ BlockedInWait /\ TimersOwned /\ LineOpen

\* What receive's comment says of after: "if nothing matches by then, evaluates
\* expr.afterBody instead of continuing to wait" (scheduler.hxx:121-123).  A
\* process blocked under a deadline must therefore have that deadline pending.
DeadlineKept ==
    \A p \in Pid :
      blocked[p] /\ wait[p].deadline # Never =>
        \E t \in timers : t.pid = p /\ t.gen = generation[p]

\* What firstProcessError's comment says: the lowest process id with an error
\* "is the first crash" (scheduler.cxx:96-97).
BlamesFirstCrash ==
    report.kind = "stuck" /\ report.cause # NoProc => report.cause = firstCrash

\* What registerName's comment says: "a name stays with its process until the
\* process finishes" (scheduler.hxx:131-132).
NameStays ==
    [][\A n \in Names :
         names[n] # NoProc /\ ~finished[names[n]] => names'[n] = names[n]]_vars
=============================================================================
