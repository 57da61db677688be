----------------------------- MODULE HttpServer -----------------------------
(***************************************************************************)
(* The owner process of Net.HTTP.Server, its workers and the callers of    *)
(* stop (runtime/src/kex_intrinsic_nethttpserver.erl).                     *)
(*                                                                         *)
(* The owner accepts connections and spawns one worker for each.  Workers  *)
(* report to it with messages: handler_upgraded when the connection has    *)
(* become a WebSocket and stops holding a handler slot, handler_done when  *)
(* it is over.  stop is a call into the same mailbox; the owner then waits *)
(* for its workers, at most for the grace period, kills the rest and       *)
(* answers with a report.                                                  *)
(*                                                                         *)
(* A connection and its worker share a name.  Parsing, routing and the     *)
(* handlers' own work are left out: a worker serves requests for as long   *)
(* as its client likes and ends with ok or error.                         *)
(***************************************************************************)
EXTENDS Integers, FiniteSets, SequencesExt

CONSTANTS
    Conns,            \* the connections clients make
    Clients,          \* processes outside the server that call stop
    Linked,           \* connections whose handler links to a process that can die
    MaximumHandlers,  \* ServerOptions.maximumHandlers
    MaxErrors         \* bound: accept errors

ASSUME HttpServerAssumption ==
    /\ IsFiniteSet(Conns)
    /\ Linked \subseteq Conns
    /\ Conns \cap Clients = {}
    /\ MaximumHandlers \in Nat \ {0}
    /\ MaxErrors \in Nat

Callers == Conns \cup Clients

Upgraded(c) == [tag |-> "handler_upgraded", from |-> c, result |-> "none"]
Done(c, r)  == [tag |-> "handler_done", from |-> c, result |-> r]
StopCall(x) == [tag |-> "stop", from |-> x, result |-> "none"]
Results == {"ok", "error"}

NoReport == [completed |-> -1, failed |-> -1, forced |-> -1]

VARIABLES
    owner,     \* where the owner process stands
    box,       \* its mailbox
    active,    \* Active: the map from workers to http or websocket
    http,      \* Http: the handler slots in use
    completed, \* Completed
    failed,    \* Failed
    stopFrom,  \* From of the stop being carried out
    backlog,   \* connections the kernel holds for accept, in order
    worker,    \* each connection and its worker process
    doomed,    \* workers an exit signal of the owner is on its way to
    call,      \* each caller's stop
    reply,     \* the report in a caller's mailbox
    errors     \* history: accept errors counted

ownerVars == <<active, http, completed, failed>>
vars == <<owner, box, ownerVars, stopFrom, backlog, worker, doomed, call, reply, errors>>

Init ==
    /\ owner = "loop"
    /\ box = <<>>
    /\ active = [c \in Conns |-> "none"]
    /\ http = 0
    /\ completed = 0
    /\ failed = 0
    /\ stopFrom = {}
    /\ backlog = <<>>
    /\ worker = [c \in Conns |-> "away"]
    /\ doomed = {}
    /\ call = [x \in Callers |-> "idle"]
    /\ reply = [x \in Callers |-> NoReport]
    /\ errors = 0

(***************************************************************************)
(* The accept loop.                                                        *)
(***************************************************************************)
Takes(m) == box # <<>> /\ Head(box) = m /\ box' = Tail(box)

\* Faulty: an upgraded connection keeps its handler slot.
UpgradeWorkerKeepsSlot(c) ==
    /\ active' = [active EXCEPT ![c] = IF @ = "http" THEN "websocket" ELSE @]
    /\ UNCHANGED http

\* Faulty: an upgraded connection is not waited for any more.
UpgradeWorkerForgets(c) ==
    IF active[c] = "http"
    THEN active' = [active EXCEPT ![c] = "none"] /\ http' = http - 1
    ELSE UNCHANGED <<active, http>>

\* upgrade_worker: the slot is free again, the worker is still known.
UpgradeWorker(c) ==
    IF active[c] = "http"
    THEN active' = [active EXCEPT ![c] = "websocket"] /\ http' = http - 1
    ELSE UNCHANGED <<active, http>>

\* Faulty: every worker gives a slot back when it is done.
RemoveAnyWorker(c) ==
    /\ active' = [active EXCEPT ![c] = "none"]
    /\ http' = http - 1

\* remove_worker: an http worker gives its slot back.
RemoveWorker(c) ==
    /\ active' = [active EXCEPT ![c] = "none"]
    /\ http' = IF active[c] = "http" THEN http - 1 ELSE http

Tally(r) ==
    /\ completed' = IF r = "ok" THEN completed + 1 ELSE completed
    /\ failed' = IF r = "ok" THEN failed ELSE failed + 1

TakeUpgraded(c) ==
    /\ owner = "loop" /\ Takes(Upgraded(c))
    /\ UpgradeWorker(c)
    /\ UNCHANGED <<owner, completed, failed, stopFrom, backlog, worker, doomed, call,
                   reply, errors>>

TakeDone(c, r) ==
    /\ owner = "loop" /\ Takes(Done(c, r))
    /\ RemoveWorker(c)
    /\ Tally(r)
    /\ UNCHANGED <<owner, stopFrom, backlog, worker, doomed, call, reply, errors>>

\* The listener is closed: what the kernel still held is refused.
TakeStop(x) ==
    /\ owner = "loop" /\ Takes(StopCall(x))
    /\ owner' = "shutdown"
    /\ stopFrom' = {x}
    /\ backlog' = <<>>
    /\ worker' = [c \in Conns |-> IF worker[c] = "backlog" THEN "refused" ELSE worker[c]]
    /\ UNCHANGED <<ownerVars, doomed, call, reply, errors>>

\* Faulty: the limit is off by one.
StartAcceptAtLimit ==
    /\ owner = "loop" /\ box = <<>>
    /\ http <= MaximumHandlers
    /\ owner' = "accept"
    /\ UNCHANGED <<box, ownerVars, stopFrom, backlog, worker, doomed, call, reply, errors>>

\* No message: with a free slot the owner goes to accept, for 250 ms at most.
StartAccept ==
    /\ owner = "loop" /\ box = <<>>
    /\ http < MaximumHandlers
    /\ owner' = "accept"
    /\ UNCHANGED <<box, ownerVars, stopFrom, backlog, worker, doomed, call, reply, errors>>

\* A connection: its worker is spawned and takes a slot.
Admit(c) ==
    /\ owner = "accept" /\ backlog # <<>> /\ c = Head(backlog)
    /\ backlog' = Tail(backlog)
    /\ active' = [active EXCEPT ![c] = "http"]
    /\ http' = http + 1
    /\ owner' = "loop"
    /\ UNCHANGED <<completed, failed, stopFrom, doomed, call, reply, errors>>

Accept(c) ==
    /\ Admit(c)
    /\ worker' = [worker EXCEPT ![c] = "http"]
    /\ UNCHANGED box

\* controlling_process fails: the owner reports the worker done to itself; the
\* worker never hears of the socket and ends on its own.
HandOverFails(c) ==
    /\ Admit(c)
    /\ worker' = [worker EXCEPT ![c] = "ended"]
    /\ box' = Append(box, Done(c, "error"))

AcceptTimesOut ==
    /\ owner = "accept" /\ backlog = <<>>
    /\ owner' = "loop"
    /\ UNCHANGED <<box, ownerVars, stopFrom, backlog, worker, doomed, call, reply, errors>>

AcceptFails ==
    /\ owner = "accept" /\ errors < MaxErrors
    /\ owner' = "loop"
    /\ failed' = failed + 1
    /\ errors' = errors + 1
    /\ UNCHANGED <<box, active, http, completed, stopFrom, backlog, worker, doomed, call,
                   reply>>

(***************************************************************************)
(* Shutdown.                                                               *)
(***************************************************************************)
Remaining == {c \in Conns : active[c] # "none"}

\* finish_shutdown: the report goes to the one caller the owner knows.
Finish(forced) ==
    /\ owner' = "replied"
    /\ reply' = [x \in Callers |->
                   IF x \in stopFrom
                   THEN [completed |-> completed, failed |-> failed, forced |-> forced]
                   ELSE reply[x]]

AllGone ==
    /\ owner = "shutdown" /\ Remaining = {}
    /\ Finish(0)
    /\ UNCHANGED <<box, ownerVars, stopFrom, backlog, worker, doomed, call, errors>>

\* shutdown_loop's receive: the first message of a worker; calls stay queued.
FromWorkers == {i \in DOMAIN box : box[i].tag # "stop"}

TakesFirst(m) ==
    \E i \in FromWorkers :
      /\ \A j \in FromWorkers : i <= j
      /\ box[i] = m
      /\ box' = RemoveAt(box, i)

DrainUpgraded(c) ==
    /\ owner = "shutdown" /\ Remaining # {} /\ TakesFirst(Upgraded(c))
    /\ UNCHANGED <<owner, ownerVars, stopFrom, backlog, worker, doomed, call, reply, errors>>

\* Faulty: the outcome of a worker that ends during the shutdown is not counted.
DrainDoneUncounted(c, r) ==
    /\ owner = "shutdown" /\ Remaining # {} /\ TakesFirst(Done(c, r))
    /\ active' = [active EXCEPT ![c] = "none"]
    /\ UNCHANGED <<owner, http, completed, failed, stopFrom, backlog, worker, doomed, call,
                   reply, errors>>

DrainDone(c, r) ==
    /\ owner = "shutdown" /\ Remaining # {} /\ TakesFirst(Done(c, r))
    /\ active' = [active EXCEPT ![c] = "none"]
    /\ Tally(r)
    /\ UNCHANGED <<owner, http, stopFrom, backlog, worker, doomed, call, reply, errors>>

\* The grace period is over and no message is left: the rest are killed.  The
\* signals travel; the report does not wait for them.
GraceOver ==
    /\ owner = "shutdown" /\ Remaining # {} /\ FromWorkers = {}
    /\ doomed' = Remaining
    /\ Finish(Cardinality(Remaining))
    /\ UNCHANGED <<box, ownerVars, stopFrom, backlog, worker, call, errors>>

OwnerExits ==
    /\ owner = "replied"
    /\ owner' = "gone"
    /\ UNCHANGED <<box, ownerVars, stopFrom, backlog, worker, doomed, call, reply, errors>>

(***************************************************************************)
(* Connections and workers.                                                *)
(***************************************************************************)
Connect(c) ==
    /\ worker[c] = "away"
    /\ IF owner \in {"loop", "accept"}
       THEN /\ worker' = [worker EXCEPT ![c] = "backlog"]
            /\ backlog' = Append(backlog, c)
       ELSE /\ worker' = [worker EXCEPT ![c] = "refused"]
            /\ UNCHANGED backlog
    /\ UNCHANGED <<owner, box, ownerVars, stopFrom, doomed, call, reply, errors>>

\* A handler that is inside a stop cannot go on.
Stopping(x) == call[x] \in {"waiting", "exiting"}

\* The 101 response is on the wire: the worker becomes the message loop.
Upgrade(c) ==
    /\ worker[c] = "http" /\ ~Stopping(c)
    /\ worker' = [worker EXCEPT ![c] = "websocket"]
    /\ box' = Append(box, Upgraded(c))
    /\ UNCHANGED <<owner, ownerVars, stopFrom, backlog, doomed, call, reply, errors>>

\* The last request is answered, or the connection failed, or the WebSocket
\* handler returned.
WorkerDone(c, r) ==
    /\ worker[c] \in {"http", "websocket"} /\ ~Stopping(c)
    /\ worker' = [worker EXCEPT ![c] = "ended"]
    /\ box' = Append(box, Done(c, r))
    /\ UNCHANGED <<owner, ownerVars, stopFrom, backlog, doomed, call, reply, errors>>

Die(c) ==
    /\ worker[c] \in {"http", "websocket"}
    /\ worker' = [worker EXCEPT ![c] = "killed"]
    /\ UNCHANGED <<owner, box, ownerVars, stopFrom, backlog, doomed, call, reply, errors>>

\* The owner's kill arrives.
Killed(c) == c \in doomed /\ Die(c)

\* A process the handler linked to, or a server it spawned (start_link), dies:
\* the exit signal takes the worker along, and nothing tells the owner.
ExitSignal(c) == c \in Linked /\ Die(c)

(***************************************************************************)
(* stop_owner and await_exit.                                              *)
(***************************************************************************)
Runs(x) == x \in Clients \cup {c \in Conns : worker[c] = "http"}

Stop(x) ==
    /\ Runs(x) /\ call[x] = "idle"
    /\ IF owner = "gone"
       THEN call' = [call EXCEPT ![x] = "zeros"] /\ UNCHANGED box
       ELSE call' = [call EXCEPT ![x] = "waiting"] /\ box' = Append(box, StopCall(x))
    /\ UNCHANGED <<owner, ownerVars, stopFrom, backlog, worker, doomed, reply, errors>>

\* Sets call[x] and nothing else.
Turns(x, state) ==
    /\ Runs(x)
    /\ call' = [call EXCEPT ![x] = state]
    /\ UNCHANGED <<owner, box, ownerVars, stopFrom, backlog, worker, doomed, reply, errors>>

\* What the owner sends to x arrives in order: after a kill, nothing does.
Waiting(x) == call[x] = "waiting" /\ x \notin doomed

\* Faulty: the report is returned without waiting for the owner's exit.
ReportReturned(x) == Waiting(x) /\ reply[x] # NoReport /\ Turns(x, "report")

ReportArrives(x) == Waiting(x) /\ reply[x] # NoReport /\ Turns(x, "exiting")

\* Faulty: the owner's DOWN only counts after a report.
OwnerDownAfterReport(x) ==
    /\ Waiting(x) /\ reply[x] # NoReport /\ owner = "gone"
    /\ Turns(x, "zeros")

\* DOWN without a report: another caller's stop ended the owner.
OwnerDown(x) ==
    /\ Waiting(x) /\ reply[x] = NoReport /\ owner = "gone"
    /\ Turns(x, "zeros")

\* after Grace + 1000
CallerTimesOut(x) == call[x] = "waiting" /\ reply[x] = NoReport /\ Turns(x, "timeout")

\* await_exit: the report is returned once the owner is down.
ExitSeen(x) == call[x] = "exiting" /\ owner = "gone" /\ Turns(x, "report")

\* after 1000: the owner is killed, and its DOWN awaited.
KillOwner(x) ==
    /\ Runs(x) /\ call[x] = "exiting" /\ owner = "replied"
    /\ owner' = "gone"
    /\ UNCHANGED <<box, ownerVars, stopFrom, backlog, worker, doomed, call, reply, errors>>

(***************************************************************************)
(* The system.                                                             *)
(***************************************************************************)
Owner ==
    \/ \E c \in Conns : TakeUpgraded(c) \/ Accept(c) \/ HandOverFails(c) \/ DrainUpgraded(c)
    \/ \E c \in Conns, r \in Results : TakeDone(c, r) \/ DrainDone(c, r)
    \/ \E x \in Callers : TakeStop(x)
    \/ StartAccept \/ AcceptTimesOut \/ AllGone \/ GraceOver \/ OwnerExits

Worker(c) == Upgrade(c) \/ \E r \in Results : WorkerDone(c, r)

Caller(x) == ReportArrives(x) \/ OwnerDown(x) \/ ExitSeen(x)

Next ==
    \/ Owner \/ AcceptFails
    \/ \E c \in Conns : Connect(c) \/ Worker(c) \/ Killed(c) \/ ExitSignal(c)
    \/ \E x \in Callers : Stop(x) \/ Caller(x) \/ CallerTimesOut(x) \/ KillOwner(x)

Spec == Init /\ [][Next]_vars

\* BEAM schedules every process: the owner and a caller with a message go on,
\* and an exit signal arrives.  Nothing is asked of the workers: a client may
\* send one request after another on a connection it keeps alive, or keep a
\* WebSocket open, for ever.
FairSpec ==
    /\ Spec
    /\ WF_vars(Owner)
    /\ \A c \in Conns : WF_vars(Killed(c))
    /\ \A x \in Callers : WF_vars(Caller(x))

(***************************************************************************)
(* Properties.                                                             *)
(***************************************************************************)
TypeOK ==
    /\ owner \in {"loop", "accept", "shutdown", "replied", "gone"}
    /\ box \in Seq({Upgraded(c) : c \in Conns} \cup {Done(c, r) : c \in Conns, r \in Results}
                     \cup {StopCall(x) : x \in Callers})
    /\ active \in [Conns -> {"none", "http", "websocket"}]
    /\ http \in Nat
    /\ completed \in Nat
    /\ failed \in Nat
    /\ stopFrom \in SUBSET Callers
    /\ backlog \in Seq(Conns)
    /\ worker \in [Conns -> {"away", "backlog", "refused", "http", "websocket", "ended", "killed"}]
    /\ doomed \in SUBSET Conns
    /\ call \in [Callers -> {"idle", "waiting", "exiting", "report", "zeros", "timeout"}]
    /\ reply \in [Callers -> [completed : Int, failed : Int, forced : Int]]
    /\ errors \in 0 .. MaxErrors

Running(c) == worker[c] \in {"http", "websocket"}
Sent(m) == \E i \in DOMAIN box : box[i] = m

\* Handler concurrency is bounded: never more than MaximumHandlers connections
\* are being served as HTTP, however upgrades, ends and accepts interleave.
HandlersBounded == Cardinality({c \in Conns : worker[c] = "http"}) <= MaximumHandlers

\* Until the report, the owner's map and the workers agree up to the messages
\* under way: a running worker is in Active, one that Active has is running, or
\* its handler_done is queued, or it was killed; a worker that still holds a
\* slot after its upgrade has its handler_upgraded queued.
ActiveAccounted ==
    owner \in {"loop", "accept", "shutdown"} =>
      \A c \in Conns :
        /\ Running(c) => active[c] # "none"
        /\ active[c] # "none" =>
             Running(c) \/ worker[c] = "killed" \/ \E r \in Results : Sent(Done(c, r))
        /\ active[c] = "http" /\ worker[c] = "websocket" /\ owner # "shutdown"
             => Sent(Upgraded(c))

\* What the above and the properties below rest on.  Until the shutdown the
\* count of slots is the number of workers the map has as http, and there is
\* room for one more while the owner accepts; the map has every worker that
\* runs.
HoldingSlot == {c \in Conns : active[c] = "http"}
SlotsCounted ==
    /\ owner \in {"loop", "accept"} => http = Cardinality(HoldingSlot)
    /\ owner = "accept" => http < MaximumHandlers
    /\ Cardinality(HoldingSlot) <= MaximumHandlers
    /\ \A c \in Conns : worker[c] = "http" => active[c] = "http"
    /\ \A c \in Conns : Running(c) => active[c] # "none"

\* A worker reports its upgrade after it, and its end once, when it has ended
\* and the owner still knows it.
ReportedOnce ==
    /\ \A i \in DOMAIN box :
         /\ box[i].tag = "handler_upgraded" =>
              worker[box[i].from] \in {"websocket", "ended", "killed"}
         /\ box[i].tag = "handler_done" =>
              worker[box[i].from] = "ended" /\ active[box[i].from] # "none"
    /\ \A i, j \in DOMAIN box :
         box[i].tag = "handler_done" /\ box[j].tag = "handler_done"
           /\ box[i].from = box[j].from => i = j

\* The backlog holds connections that wait, each once; the map has none that
\* was not accepted.
Accepted == {c \in Conns : worker[c] \notin {"away", "backlog", "refused"}}
BacklogWaits ==
    /\ \A i \in DOMAIN backlog : worker[backlog[i]] = "backlog"
    /\ \A i, j \in DOMAIN backlog : backlog[i] = backlog[j] => i = j
    /\ Remaining \subseteq Accepted

\* Every accepted connection is counted as completed or failed, or remains.
AllCounted ==
    completed + failed + Cardinality(Remaining) = Cardinality(Accepted) + errors

\* A report is given at the end, and says what the owner then knows.
ReportTrue ==
    /\ \A x \in Callers : reply[x] # NoReport =>
         /\ owner \in {"replied", "gone"}
         /\ reply[x] = [completed |-> completed, failed |-> failed,
                        forced |-> Cardinality(Remaining)]
    /\ owner \in {"replied", "gone"} => \A c \in Conns : Running(c) => c \in doomed
    /\ \A x \in Callers : call[x] = "report" => owner = "gone"

Consistent ==
    /\ TypeOK
    /\ HandlersBounded /\ ActiveAccounted
    /\ SlotsCounted /\ ReportedOnce /\ BacklogWaits /\ AllCounted /\ ReportTrue

\* A report covers every accepted connection, and every failed accept, exactly
\* once; and one that forced nobody down left nobody running.
ReportAddsUp ==
    \A x \in Callers : reply[x] # NoReport =>
      /\ reply[x].completed + reply[x].failed + reply[x].forced
           = Cardinality(Accepted) + errors
      /\ reply[x].forced = 0 => \A c \in Conns : ~Running(c)

\* When a stop has returned a report, the server is not running any more
\* (running? is is_process_alive of the owner), and no worker outlives it
\* except one whose kill is on its way.
StopMeansStopped ==
    \A x \in Callers : call[x] = "report" =>
      owner = "gone" /\ \A c \in Conns : Running(c) => c \in doomed

\* Every stop returns, the ones that come while another is carried out
\* included, and without the caller's own timeout.
StopReturns == \A x \in Callers : Stopping(x) ~> (~Stopping(x) \/ ~Runs(x))

\* The limit leaves room: fewer than MaximumHandlers connections speak HTTP or
\* were killed while the owner had them as doing so.
SlotFree ==
    Cardinality({d \in Conns : worker[d] = "http" \/ (worker[d] = "killed" /\ active[d] = "http")})
      < MaximumHandlers

\* A connection in the backlog is accepted, or refused by a shutdown, if the
\* limit leaves room again and again: connections that upgraded, ended or were
\* never handed over do not hold the slots it waits for.  Clients that go on
\* speaking HTTP for ever, and a worker killed behind the owner's back, do.
PendingServed ==
    \A c \in Conns : []<>SlotFree => (worker[c] = "backlog" ~> worker[c] # "backlog")
=============================================================================
