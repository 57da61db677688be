# Kex: specifications of its concurrent and crash-prone core

TLA+ modules for the parts of Kex where the order of events, or the moment at which
a process is killed, decides whether the program is right: the interpreter's process
scheduler with its tasks, servers and supervisors; `Process.run`; the HTTP server and
WebSocket connections of the BEAM runtime; the caches of compiled code that several
compilers share; and the package manager Tey, which resolves versions and installs
toolchains. TLC checks them on small instances. TLAPS proves, for every instance, the
safety of the scheduler, of its tasks, servers and supervisors, of `Process.run`, of the
HTTP server, of a WebSocket's message loop, of the run cache and the unit cache, of Tey's
dependency resolution and toolchains, and the laws of Tey's version order.

Source paths below are relative to the repository root.

    tlc -config Scheduler.cfg MCScheduler      # any configuration and its module
    tlapm RunCacheProofs.tla                   # the proofs of one component

## 1. Inventory

Kex is a functional language with an actor model. A C++ front end (lexer, parser,
type checker, IR) feeds two back ends: a tree-walking interpreter whose processes
are fibers, and Core Erlang for the BEAM with a runtime written in Erlang. The
standard library and the package manager Tey are written in Kex. The processes of one
program meet in the scheduler or in OTP; the processes of one user (compilers, runs,
Tey) meet only in the file system, where they share caches and an installation.

| Component | State | Operations and interactions | What is hard | What makes it correct |
|---|---|---|---|---|
| Interpreter scheduler (`src/interpreter/scheduler.*`) | process table, mailboxes, ready queue, timers, names, the thread's holder | spawn, send, receive with `after`, register, preemption; driver loop; a session of lines that share the process table | messages, timeouts and preemptions reach a process in any order; timers outlive the waits they were made for | a process has one home; no lost wakeup; no early and no lost timeout; a stuck report is true; nobody starves |
| Interpreter tasks, servers, supervisors (same file, `src/interpreter/stdlib/process.cxx`) | a server's request in work, kept `From` values, call references, a supervisor's children | start, await, call, cast, reply, stop, poll, respawn, all through ordinary mailboxes | late answers, stray envelopes, crashes in a slot, deadlock between servers | a request or a result is never lost on the way; a child is replaced, and only when dead |
| `Process.run`, `Process.stream` (`src/interpreter/stdlib/process.cxx`) | a child, two pipes, a deadline, the forwarder of signals | fork, poll, read, `waitpid`, SIGTERM, grace, SIGKILL | the child ends, fills a pipe or ignores a signal at any moment; what it started holds its pipes | all output without a limit; the child reaped once; nobody left after SIGKILL; the call returns |
| Fibers (`src/interpreter/fiber.*`) | C++ stacks | resume, yield | none above the library | exactly one fiber runs |
| Evaluator, values | environments | evaluation between two yields | sequential | language semantics |
| BEAM HTTP server (`runtime/src/kex_intrinsic_nethttpserver.erl`) | map of workers, slots in use, counters | accept, upgrade, worker done, stop, graceful and forced shutdown | workers report by messages; upgrades free slots; concurrent stops; killed workers | slots bounded and given back once; the report adds up; stop returns and means stopped |
| BEAM WebSocket connection (`kex_intrinsic_netwebsocket.erl`) | buffer, fragment, pending receive, closed flag | send, receive, timeout, close, peer events | one pending receive, several callers; deadline against data | every receive is answered once; no data lost |
| BEAM tasks, supervisors, serving, child guard (`kex_task.erl`, `kex_supervisor.erl`, `kex_intrinsic_process.erl`, `kex_child_guard.erl`) | mailboxes, monitors, OTP children | start, await, serve, run OS processes | `DOWN` against results, repeated awaits | an await answers with its own task's outcome |
| BEAM streams and feeds (`kex_intrinsic_feed.erl`, `_stream.erl`) | one-shot cursors | next, close | reading after the end | an abstract sequence reader |
| Other runtime modules | sockets, files | thin I/O layers, pure value functions | - | library behaviour |
| Run cache (`src/main.cxx`, `src/compiled/expand.cxx`) | a directory per digest of the sources; a directory per entry file with modules, names and stamps | read the entry, look up by entry, resolve, load, build, store, vouch, list | files edited or added while a run builds; a kill between two renames; two runs in one directory; compile-time code that looks outside | what is started is current and of one build; a current entry can be loaded |
| Unit cache (`src/cache/separate_unit.cxx`, `checkUnitsSeparately` in `src/main.cxx`) | a directory per key with interface, Core and manifest | key, load, store through a staging directory | two compilers on one key, a kill between two files, damaged files | a build gets its own results; an entry is whole or absent and never replaced |
| Tey resolver (`tey/src/tey/resolver.kex`, `semver.kex`, `git.kex`) | queue, pins, clauses and repositories asked for | take a dependency, pin, check, merge lists | who asks first decides; cycles; several lists; pre-releases; tags of several packages, and branches named like versions | every range is met, whoever asked first; the lock is closed, one package per name; resolving ends |
| Tey toolchains and self-update (`tey/src/tey/toolchain.kex`, `self_update.kex`) | trees at their place, staged and aside; selection, link, launchers | install, adopt, use, uninstall, upgrade, publish | a kill or a failure between any two file operations, and the next command over the leavings; upgrades that go back to an older release | only whole trees are published; one fault loses nothing; launchers and runtime agree |
| Tey lockfile, manifest, cache | text files, checkouts | read, write, fetch | - | a round trip |
| Retry, Queue (stdlib in Kex) | pure values | backoff; enqueue, dequeue | boundaries | a reference definition |
| Lexer, parser, type checker, IR, metadata, expansion, LSP, CLI | trees, documents | sequential passes | size, not order | a statement about two languages |

`PROJECT.json` lists every component with its status, and under "hazards" each
place where this code can go wrong in a way a test hardly reaches, with the
properties that cover it.

## 2. Modules

| Module | Models | Configurations |
|---|---|---|
| `Scheduler` | process table, ready queue, timers, driver, spawn/send/receive/register | `Scheduler.cfg`, `DeadlineLost.cfg` |
| `Actors` (extends `Scheduler`) | tasks, servers, supervisors as processes of it | `Actors.cfg`, `Supervisor.cfg` |
| `HttpServer` | owner process, workers, callers of stop | `HttpServer.cfg` |
| `WebSocket` | one connection's message loop, its callers, the kernel and the peer | `WebSocket.cfg` |
| `ProcessRun` | one call of `Process.run` or `stream`, its child and a grandchild | `ProcessRun.cfg`, `ProcessOutput.cfg` |
| `RunCache` | the two caches of `kex file.kex`, its processes, the editor | `RunCache.cfg` |
| `UnitCache` | the unit cache and its compilers | `UnitCache.cfg` |
| `UnitStore` | abstract: a write-once store, which `UnitCache` implements | the same |
| `Resolver` | Tey's dependency resolution | `Resolver.cfg` |
| `Semver` | the order of versions and what a requirement asks | evaluated by `MCResolver` |
| `Toolchains` | Tey's toolchains, its own runtime and launchers on disk | `Toolchains.cfg` |
| `ActorsProofs` (of `Scheduler` and `Actors`), `ProcessRunProofs`, `HttpServerProofs`, `WebSocketProofs`, `RunCacheProofs`, `UnitCacheProofs`, `ToolchainsProofs`, `ResolverProofs` (of `Resolver` and `Semver`) | theorems and proofs | - |
| `MC*` | instances for TLC | - |

Operators whose comment begins with "Faulty:" are wrong on purpose: each is a
definition as a plausible bug would have it, and put in that definition's place it
makes one property fail. They are used by no specification; `PROJECT.json`
("mutants") pairs them with the property they break.

### Scheduler

One OS thread runs every process as a fiber, and a fiber keeps it until it
finishes, blocks or is preempted. So one action is what happens from one yield or
scheduler operation to the next, and the state says who holds the thread:
`target = NoProc` (the embedder, between two lines), `current = NoProc` (the
driver loop), or the process `current`.

| Model | Code |
|---|---|
| `ready`, `timers`, `names`, `nextId` | `m_ready`, `m_timeouts`, `m_names`, `m_nextId` |
| `mailbox`, `blocked`, `generation`, `woke`, `finished`, `error` | the fields of `Process` (`blockedOnReceive`, `waitGeneration`, `wokeByTimeout`) |
| `wait[p]` | the suspended fiber: which loop it is in, and its locals: what ends the wait, the deadline, whether it has blocked. `timeoutRegistered` is `parked` with a deadline |
| `StartLine`, `EndLine` | `runToCompletion`, before and after the drive; the next REPL line finds the other processes as they were |
| `FireTimeout`, `Resume`, `SleepUntil`, `ReportStuck` | `driveUntilFinished` and `fireExpiredTimeouts`, one turn of a loop each |
| `Receive`, `ScanHit`, `ScanMiss`, `ScanPreempt`, `TimeoutBranch` | `blockingReceive`; the same scan serves calls and awaits, whose loops have the same shape |
| `Deliver`, `Send` | `Scheduler::send` and `Process.send` |
| `Preempt` | `tickReduction` when the budget is spent |

A scan that a guard's preemption interrupts goes on at its index in the code and from the
head of the mailbox here. That is no difference: what it has passed did not match, and
messages only come at the end. What a process computes is open: in Kex code it may do any operation next. The
clauses of a receive are the set of messages they accept. Two timers with the same
deadline, process and generation cannot exist, so a set stands for the multimap;
equal deadlines fire in any order, which includes the code's. The clock advances
while a process runs and between lines, and at a sleep of the driver, which may
wake late; during the short loops of the driver it stands still.

Not modelled: a guard that itself calls the scheduler (it may be preempted or
throw here), links, environments and capabilities, exit values.

### Actors

Envelopes are records with a tag, the task or call reference, and the caller.
`Await` and `Call` begin a wait of `Scheduler` for one envelope, so `ScanHit`,
`ScanMiss` and `TimeoutBranch` serve them too. The serve loop is `ServeIdle`,
`ServeSkip` and `ServeTake`; while a slot runs, its process is in Kex code and may
do everything a process may, calls to other servers included, and ends with
`SlotReply`, `SlotHold`, `SlotDrop` or a crash. A supervisor is `StartChild`, `SleepFor`,
the poll, `Respawn` and `RespawnFails`. `SupervisorAtBound` belongs to the
instance: it stands for a supervisor that would go on when the instance has no
process, wait or instant left. `collected`, `dropped`,
`started` and `overdue` are history variables the properties use. A request in the mailbox of a
server that has crashed is there still, and counts as accounted for: its caller waits until its own
limit, as in the code, which tells nobody.

### HttpServer

Every step of the owner between two mailbox looks is an action. Workers are
spawned processes of their own; a connection and its worker share a name. Mailboxes
are ordered; what one process sends another arrives in order, so nothing of the
owner reaches a worker after the owner's kill. `Linked` connections have a handler
that linked to a process which may die, or started a server (`start_link`): then
the worker dies by an exit signal, and nobody tells the owner, which has no
monitor on it. Timeouts of callers happen at any moment. The grace period is over
at any moment at which the mailbox holds no worker message. A worker that keeps its connection alive serves
one request after the other for as long as its client likes, so how long a slot is taken is
open.

Not modelled: parsing, routing, the 5 s an abandoned worker lives on, the listener
closed behind the owner's back, stop called from a WebSocket's handler process, join.

### WebSocket

An upgraded worker of the HTTP server becomes the connection's message loop, and a
fresh process runs the handler. Each clause of `server_loop` is an action that
takes the head of the mailbox: `TakeSend`, `TakeReceive`, `TakeTimeout`,
`TakeClose`, `TakeData`, `TakeTcpClosed`, `TakeDown`. `closed`, `pending`, `buffer`
and `fragment` are its arguments; `timers` are the `send_after` timers, `armed` is
`{active, once}`. `Read` is `server_try_receive` with what the two clauses that
call it do next: `ReadDone` answers, `ReadPending` waits for more. `Ask`,
`SeesDown` and `GivesUp` are the three ways through `call/3`. The rest is the
environment: an armed socket delivers a prefix of the kernel's frames or the end
of the connection, and the peer sends whole and fragmented messages, pings and a
closing frame, or leaves, with or without what it had sent. Frames come whole: a
partial one is one that has not been delivered. When the loop's process ends, its
mailbox, buffer, timers and port go with it. `got` is a history variable.

Not modelled: the client's loop (it blocks on the socket and keeps the deadline in
one place by construction), the handshake, bytes, masks and limits, `session`,
which changes nothing, and a send that blocks because the peer does not read.

### ProcessRun

One call, from the child that has just been forked to the answer. `Drain` and `Wait`
are `drainPipes` and the blocking `waitpid` of a call without a limit (a stream has no
pipes and only waits). `Loop`, `Poll`, `Watch`, `Term`, `Grace`, `Kill`, `ReapKilled`
and `Answer` are the bounded call, one action between two system calls. Child and
grandchild `Write`, `CloseOutput`, `Fork`, `Exit`, `Abort` and `TakeSignal`; a pipe holds
`PipeSize` chunks, and a read takes one. `Elapse` passes the deadline, then the grace
period, at any moment. `Interrupt` is a signal the forwarder passes on. `killed` is a
history variable.

Not modelled: errors of `poll`; errors of `waitpid` other than an interruption and a
child that is reaped already; a signal between `fork` and the installation of the
forwarder; the race of the two `setpgid`; a number that is given to a stranger after
the reap, as far as the forwarder goes (`KillsOwn` is about the limit's own signals).

### RunCache

A run is the sequence `Start`, `ReadEntry`, `LookupEntry`, then `LoadEntry` and
`CopyEntry` on a hit, or `Resolve`, `LoadKept`, `CopyKept` and, where that misses, a
build followed by `StoreKept`, `NameKept`, `Vouch`, `Unlist`, `StoreEntry`, `NameEntry` and
`List`; `Run` starts the program. Each file that is renamed into place is a step, and
`Killed`, `StoreKeptFails` and `StoreEntryFails` come between any two. `Edit`, `Remove` and
`Ambient` change what there is to read. A compiled module is the record of what it was
made from, so that its freshness can be asked. `since`, `stamps`, `out` and `todo` are locals
of the run; `seen` and `clashed` are history variables.

Abstractions: reading the entry and folding its embeds is one step, and so is taking
all the stamps, and checking them. A modification time stands for size and time, and
grows with every change. The cache of single modules is part of the build. Left out are
staging files a killed process leaves behind, which nobody reads, and a list of stamps or
names that a full disk cuts short (`ofstream` errors are not looked at when it closes). The
checked instance lets files be removed only while nobody builds: one removed during a
build has no modification time to compare, and its absence is what the list then
vouches for.

### UnitCache and UnitStore

A program is two units, of which one may use the other. `Lookup` is `load`, `Store` the
check at the head of `store`, `Write` and `Rename` the rest of it; `Has` goes on to the next
unit. `Killed`, `WriteFails` and `Damaged` are the faults, `Edit` changes sources or what
compile-time code would find. A digest is what it is a digest of, so keys do not
collide. `UnitStore` knows for each key only whether nothing, a whole entry or
something damaged stands there: `Standing` is the refinement mapping, `WriteOnce` the
property that `UnitCache` implements it.

### Resolver and Semver

`Take` is the whole handling of one dependency off the queue: repository, combined
requirement, then the check of what is pinned or a new pin with the dependencies it
brings. `Conflict` and `Unavailable` are its error returns, `NextList` begins the next
list of a workspace, and `Merge` is `uniqueDependencies`. What a checkout declares is chosen
when it is first read and stays (`manifest`). `asked`, which says who asked for what, is a history
variable. A `List` is what a project
declares or what a package at a local path does; nobody looks at the groups in either, while
`Inherited` drops those of a fetched package.

A `Commit` is named by the tag it has, or by a number if it has none. A tag belongs to a
package (`scope`) or to the repository; which tags a package takes for its own is `Own`, and
`Begins` says of which packages that takes in the tags of another, as `http-validator-v2.0.0`
begins with `http-v`. A branch or ref has a commit and a version its name is read as, `named`,
which is none for most. A pin has the version that was read out of the name it was asked for
by, as in the lockfile's `resolved`. In `Resolver` a version is a number; `Semver` has versions
with their parts, and TLC evaluates in `MCResolver` (`LadderAscends`,
`SameRequirements`) that the two agree on a ladder of versions.

Abstracted or left out: the text of versions (a pre-release is its channel and
number; that a `-` in a build's metadata reads as one is not told apart), the
subdirectory, hash and version fields of a pin (repository and commit stand for
them), plugins, and requirements on Kex and OTP. A commit has one tag at most, repositories
do not change while Tey resolves, and no commit hash reads as a version, as one of decimal
digits only would.

### Toolchains

A command of Tey is a program counter, `op.pc`, that goes from file operation to file
operation. A tree has parts (the directory, `bin/kex`, the rest) so that a half-filled and
a half-deleted one can be told from a whole one. `DeleteAll`, `Unpack`, `Fill` and `Move`
stage; `Aside`, `Into` and `Back` are `publish`; `Select`, `Link`, `Unselect` and `Unlink` are the
selection; `SwapLauncher` with a publish of the name `"tey"` is `self_update`: `Upgrade` is to the
newest release or to one that is named, which may be older. `Fails`
leads from every step to where the code goes when that step fails, `Killed` ends the
command anywhere. `owned` and `returning` are history variables: the second is set from the moment at which an
upgrade to an older release swaps its first launcher until a runtime is published.

Not modelled: two Teys at once (nothing locks the home), downloads, the Tey that is
paired with a Kex, the refusal of releases that cannot upgrade themselves, carrying over an older Erlang, a `cmake` that does not start. Deletions
succeed unless the process is killed, except that of `uninstall`. A kill while Tey's own
runtime is being replaced leaves a Tey that cannot start; the model says so (`TeyRuns`) and has no
command after it. A Tey of an older release is taken to run as the one in the repository does, launchers
older than the runtime included.

## 3. Runs

| Run | Instance | What it shows |
|---|---|---|
| `scheduler` | 2 processes, 2 waits each, mailboxes of 2, 2 ticks; receives that match and that do not; fair | one home, queue without repetition, no lost wakeup, no early timeout, true stuck reports; pending timers fire, ready processes run; the proofs' strengthening holds (607,000 states) |
| `actors` | 3 processes (task, server, callers, any roles), 2 waits, one call reference, mailboxes of 2, one name | requests and results accounted for; the scheduler's invariants under the serve loop and registration (2.5 million) |
| `supervisor` | 5 processes, 3 waits each, 3 ticks, two child blocks, fair | children replaced, one at a time; there is always a next poll (344,000) |
| `http_server` | 2 connections, 1 slot, 2 outside clients that stop, 1 accept error, 1 linked handler, fair | slots, map, report, stop and backlog (299,000) |
| `websocket` | 1 process that receives, 1 more that sends and closes, 2 calls, 2 messages, 1 ping, fair | messages in order and without a gap; the pending request is waited for and listened for; no receiver forgotten; receives end (208,000) |
| `process_run` | three modes, pipes of 1, 2 chunks per pipe, child and grandchild | output, reaping, signals, the call's return (66,000) |
| `run_cache` | 2 processes, 3 runs, 2 edits, 1 fault | no stale module, no mixture of builds, a current entry loads (2.3 million) |
| `unit_cache` | 2 compilers, 2 builds, 1 edit, 1 fault | a build's results are its own; the cache implements `UnitStore` (63,000) |
| `resolver` | 2 packages, 2 repositories with 6 tags, one of a third package whose tags are taken for another's, 14 offered dependencies, two in one list or in a project's and a local path's, or three (of 4 of them) in the two, 1 fault | ranges, closure, one package per name, own tags, the end; the proofs' strengthening holds (1.6 million) |
| `toolchains` | 2 versions and Tey, 4 commands, 3 releases, 2 faults | publish, loss, what an upgrade to a newer or older release leaves, selection (1.7 million) |
| `deadline_lost` | 2 processes, 1 wait, 1 message, 1 tick | an `after` clause that never comes (section 6) |
| `process_output` | a call with a limit, pipes of 2 chunks | an Ok with part of the output (section 6) |

The bounds. A wakeup race needs two processes, a stale timer two waits of one
process and an instant in between: `scheduler` has both, and two processes in the queue
with one that is preempted again and again are enough to show starvation. A late
reply needs a server, a caller that gave up, and a second process to compete: three
processes. A poll that forgets a child shows when the second of three sleeps is over,
and a wrong respawn needs a process to spare: the root, the supervisor, two children
and one more. In `http_server` two connections compete for one slot in every order of
upgrade, end and death, and up to four callers stop at once; the same properties were
checked with three connections and one client. In `websocket` a message around a
timeout needs two receives and, to show a gap, a second message. Only one process
receives there, since two break `DeadlineAnswered` and with it every other promise to a
receiver. In `process_run` a pipe of one chunk and two chunks per pipe make every writer
block, and the order in which two processes close, end and are signalled is all there is
to a larger family. A stale hit in `run_cache` needs a run that stores, an edit and a run
that loads; the third run and the second edit put one more run between, and with two at a
time every overlap of a store with a load occurs. `unit_cache` needs two compilers on one key
and a third state of the key, damaged; the fault also stands for the kill. In `resolver` the
third dependency, of another list or of a package, is what meets a pin made for two; two
packages make cycles and siblings, and a third is only there for its tag. In `toolchains` four commands install, break, reinstall
over the leavings and remove, or upgrade in between, and three releases
let an upgrade go forward from one that a return has left; two faults are one more than the
properties allow to be harmless.

`MaxProcs`, `MaxWaits`, `MaxMailbox`, `MaxClock`, `MaxCalls`, `MaxErrors`, `MaxMessages`, `MaxPings`,
`MaxWrites`, `MaxRuns`, `MaxBuilds`, `MaxEdits`, `MaxFaults`, `MaxOps`, `MaxReleases` and `MaxDeclared` bound
what the code does not bound; each cuts behaviour off in a guard and none changes
what a step does. `SupervisorAtBound` belongs to the same family. Processes of `RunCache` and
compilers of `UnitCache` are interchangeable, and those runs use symmetry; they check no
liveness.

Deadlock is checked in the scheduler and actor runs, except that a session may be
over (`SessionOver`) when no process can be created. All others may stop: the owner
exits, the connection ends, the call answers, nobody starts another command.

### Fairness

- The driver loop never pauses: weak fairness on its steps.
- The clock runs whenever a process does: strong fairness on `Advance`, since
  processes run again and again but each only for a while.
- A process does not keep the thread: a call every so often spends its 2000
  reductions, and scans end: weak fairness on `Preempt` and on the scan. Nothing
  says a process ever finishes, sends or receives.
- A supervisor's and a server's own C++ loops go on: weak fairness.
- In `HttpServer` the BEAM schedules the owner and callers with a message, and a kill
  arrives. Workers owe nothing: `handle_connection` has a 30 s limit for each read and none for
  the number of requests, so a client that keeps its connection alive holds its slot for
  as long as it likes, as an upgraded one may stay for ever. So `PendingServed` has a
  premise: a connection leaves the backlog if a slot comes free again and again. Clients
  need not connect, and no caller's timeout is relied on; stop does not need workers
  that end, since the grace period bounds its wait.
- In `WebSocket` the loop runs when it has a message, an armed socket delivers what
  there is, timers fire and monitors report. Peer, handler and callers owe nothing.
- In `ProcessRun` the caller and the clock go on and the kernel delivers a signal that
  was sent. With a limit nothing is asked of the programs. Without one the call can only
  return if they end, so there, and only there, they get to write what they write and end.
- `Resolver` is one sequential function: weak fairness on its next step.

## 4. Properties

Several runs check one conjunction, `Consistent` (`ActorsConsistent`, `CacheCorrect`), that
holds the type invariant, the parts named in the table below and, where there is a proof,
what makes them inductive.

| Module | Properties |
|---|---|
| `Scheduler` | `OneHome` (a live process runs, is queued, or is blocked, exactly one of them), `NoLostWakeup`, `TimeoutNotEarly`, `StuckIsReal`; under fairness `PendingTimerFires` and `ReadyRuns` |
| `Actors` | `CallAccounted` (the request of a blocked caller is somewhere: queued, in a slot, kept, or dropped by its slot's choice), `AwaitNotStranded` (whoever awaits its own task waits for one that lives, unless the one result was already taken), `OneLiveChild`, `PollReplaces` (a poll leaves no child that was dead when it began), `SupervisorWakes` |
| `HttpServer` | in `Consistent`: `HandlersBounded`, `ActiveAccounted` (map, workers and messages under way agree) and `ReportedOnce`; `ReportAddsUp` (every accepted connection and failed accept once), `StopMeansStopped`, `StopReturns`, `PendingServed` (nobody stays in the backlog while slots come free again and again, and an upgrade gives its slot back; a worker killed behind the owner's back does not, nor does a client that keeps its connection alive) |
| `WebSocket` | in `Consistent`: `PendingWaited` (the pending request has a caller that waits, and the socket is armed or has delivered) and `Numbered` (a request is in the mailbox once and not pending as well; a queued receive has its caller); `InOrder` (what receivers get is a gapless prefix of what the peer sent), `ReceiveHeld` (a receiver's request is queued or pending, so closing answers it), `ReceiveEnds` |
| `ProcessRun` | in `Consistent`: `ChildReaped` and `KillsOwn` (the group is signalled only while its number is the child's); `OutputWhole` (an answer without a limit has all of the output), `KilledWhole` (after SIGKILL nothing of the group lives on), `Returns` (with a limit the call comes back whatever the programs do; without one when they end) |
| `RunCache` | in `Consistent`: `CurrentLoads` (a run gives up only after another process was in the directory); `AnswerFresh` (what is started was compiled from sources that were there while the run ran), `AnswerWhole` (every module, and all of one build) |
| `UnitCache` | in `CacheCorrect`: `BuildCorrect` (a build has what compiling its own sources would give); `WriteOnce` (the refinement) |
| `Resolver` | in `Consistent`: `Closed` (what a project, a local path or a pinned package needs is pinned, groups of the first two with it, and nothing else) and `OnePackage`; `RangesMet` (whoever asked, in whichever order: by the version of the tag, or by one in the name somebody asked for that commit by), `OwnTag` (a package with tags that count as its own is pinned elsewhere only when somebody asked for that very commit), `Ends` |
| `Toolchains` | `NotLost` (after one fault every installed version is whole somewhere), `PublishedWhole` (a step property of every prefix), `UpgradeOrder` (a finished upgrade leaves launchers and runtime of the release it was asked for; cut short, it leaves no launcher older than the runtime unless it was a return to an older release), `Selection` (a finished install leaves no leavings; selection, link and tree agree) |

Some of them leave out what is known to fail. `AnswerFresh` and `AnswerWhole` say nothing of an answer
given by an entry's directory after two processes met in it, one of them storing: `EntryAnswerFresh`,
which does, is refuted. `NotLost` speaks of one fault: with two, a version can be lost.
`UpgradeOrder`'s second half exempts a return to an older release that is cut short (`NeverOlder` does not).
`OwnTag` and `RangesMet` say what the code's reading of names amounts to; `NotAnothers` and
`RangesByTags` say what its comments claim, and are refuted. `AwaitNotStranded` exempts awaits of a
task whose one result was taken before.

## 5. Proofs

Each theorem about a specification goes through an inductive strengthening that TLC checks as an
invariant of a run.

The first part of `ActorsProofs`, for all constants that satisfy `SchedulerAssumption`: `TypeOK`, `OneHome`,
`NoLostWakeup`, `TimeoutNotEarly`, `StuckIsReal` and `Consistent`. None of the middle
four is inductive alone; each layer adds what the next one needs:

- `Home == TypeOK /\ Unborn /\ ReadyOnce /\ OneHome`. Appending to the queue keeps
  it free of repetition because whoever is appended is running or blocked, hence
  not queued; a new process is not queued because it did not exist (`Unborn` says
  that what does not exist has not finished, so it is not taken for a dead one).
- `Quiet` adds `BlockedInWait` and `NoLostWakeup`: whoever is blocked is parked in one of
  the waits there are, a scan, a serve loop or a sleep, so a message that one of the first
  two would take either wakes it or finds it awake.
- `Timely` adds `TimersOwned` and `TimeoutNotEarly`: no timer is ahead of its
  process's wait counter, and one with the current count carries the current
  deadline. Without it a stale timer could not be told from a live one.
- `Honest == Quiet /\ LineOpen /\ StuckIsReal`: with an empty queue and nobody
  running, `OneHome` leaves blocked as the only home, and `NoLostWakeup` gives the rest;
  no process runs after the report.

They rest on a few lemmas about queues (`AppendOccurs`, `AppendNoRepeat`, `TailOccurs`) and on
`Enqueue`, `SameHome`, `StaysQuiet` and `StaysTimely`, which say which changes of state keep a layer.
They speak of one wait, one delivery or one new process, not of the actions of `Scheduler`, so
the actors can use them too.

The second part, for any processes, restarts and servers: `ActorsKeepTheirPromises` (all of
`ActorsConsistent`, the scheduler's layers among it), `EveryCallIsAccountedFor`,
`NoAwaitIsStranded`, `OneLiveChildPerBlock` and `PollsReplaceTheDead`. It begins with the steps of tasks,
servers and supervisors, which keep the layers of the scheduler. For the promises, `ActorsConsistent`
has four parts that say what the promises follow from. `CallsTracked`: the
reply a caller waits for is in its mailbox, or its request is still somewhere. `ResultsTracked`: a task that is over has sent its one result, to the process
that spawned it, and it lies there until it is collected. `ChildrenTracked`: the
live child of a block is the one its supervisor polls. `OverdueTracked`: a child that was dead
when the poll began is replaced once the cursor has passed it.

`RunCacheProofs`, for any processes, runs, edits and faults: `AlwaysConsistent`, `AnswersAreWhole`, and,
if no file is removed while a process runs, `AnswersAreFresh`. A process meets the others only in
the three things they share, so a step is judged by what it does to its own process and to
those (`StepKeeps`, `OthersKeep`), and `Alone` keeps the others' knowledge of the entry true until two
have met there. `ReadsSeen` says what a run has read is still there or has a newer time; that is what
makes a stamp taken later vouch for it (`Vouches`): a time in a list is never that of a newer file
(`WorldKeeps`). `EntryRight` says of the entry what its list promises, `StoresEntry` and
`LoadsEntry` what those under way there have done so far; `KeptRight` ties every key to what it
stands for, which `KeyNamesAll` proves of `RunCacheKey` for the programs it is used for.

`UnitCacheProofs`, for any compilers, builds, edits and faults: `CacheIsRight`, from `StagedRight`
(what is staged is the result of its unit) and `EntriesRight` (every whole file under a key
is of the one result the key stands for; what is damaged is not whole), and
`ImplementsStore`: initial state to initial state, and every step to a step of `UnitStore` or a
stutter, because a rename succeeds only where nothing stands and damage only takes away.
The fact that one key has one result is proved of `KeyFor`, not assumed.

`ProcessRunProofs`, for pipes of any size and any amount of output: `AlwaysConsistent`,
`AnswersWithAllOutput`, `ChildIsReaped` and `KillLeavesNobody`. `Drained` says that a pipe the caller
is done with was read to its end and has no writer left; `Stages` says what each place in the
caller's code knows about the child.

`HttpServerProofs`, for any connections, callers, limit and number of accept errors:
`AlwaysConsistent`, `ReportsAddUp`, `StopsMeanStopped`. `HandlersBounded` and `ActiveAccounted` are not
inductive. `SlotsCounted` counts the slots as entries of the map, of which the workers that
serve HTTP are a part; it needs `ReportedOnce` (a worker's end is in the mailbox at most once,
and only while the map has it), or a slot could be given back twice, and `BacklogWaits` (what
is accepted was never in the map), or it could be taken twice. `AllCounted` is the sum of
`ReportAddsUp` at every moment, and `ReportTrue` says that a report is what the owner then
knows and that its knowledge does not change any more. The lemmas about the mailbox say what
taking the head, taking the first message of a worker out of the middle, and appending
leave of it; `Recount` says what a change of one entry does to the counts.

`WebSocketProofs`, for any holders of the connection and any number of calls, messages and pings:
`AlwaysConsistent`, and, where one process receives, `OneReaderHeld` (`ReceiveHeld` at every moment).
`PendingWaited` is not inductive: a receive that is taken from the mailbox becomes the pending
request, so it must be known there that its caller still waits, and an answer to another
request must not be one to the pending one. `Numbered` says both. `TakenKeeps` is the heart: which
answers and which next pending request a clause of the loop may choose. The restriction to
one reader is what the code needs (section 6, `DeadlineAnswered`). `MessagesInOrder` (`InOrder`,
for any number of readers) follows from `Flow`. Between two frames stands a mark, which says how
many of the peer's messages have begun and whether one is under way; while messages can still
be read, the frames of the buffer, of the letters in the mailbox and of the kernel lead, mark by
mark, from what receivers have been given to what the peer has sent. A step moves frames from
one of these to the next, or reads one at the front. `Flow` quantifies over functions and is
proved only: no run evaluates it. `Reaches` is the induction it needs, over frames of any number.

`ToolchainsProofs`, for any number of versions, commands, releases and faults: `AlwaysConsistent`,
`OneFaultLosesNothing`, `UpgradesInOrder`, `OnlyWholeIsPublished` and `SelectionHolds`. `Staged` says what lies in the trees
of the running command at each of its steps; `Kept` says where an installed version is while
at most one fault has happened, which is the case analysis behind `NotLost`; `Released` says which
release the staged runtime, the launchers and the published runtime are of at each step of an upgrade,
and orders them as long as no return was cut short. `Finished` and `Agreed` carry `SelectionHolds`: what
each remaining step of a command that has not failed will still do to the selection, the link and
the trees.

`ResolverProofs`, for any packages, repositories, tags, dependencies, lists and faults:
`AlwaysConsistent`, `EveryRangeIsMet`, `TagsAreOwn`. `Closed`, `OnePackage` and `RangesMet` speak of the
end, and while the queue is at work they are false, so the invariant says what they are on the
way: `AskedPinned` (whatever was taken off the queue has a pin, of its repository, that meets
its range), `NeedsPinned` (what a pin needs is pinned or queued), `PinnedNeeded` (what is pinned or
queued is needed by a project or a pin) and `OnePin` (within one list a name has one pin). A
pre-release that one requirement asks for passes for both, so a pin that met a range goes on
meeting it when more is asked: that is why `MetBy` looks at all that was asked, and why
`WantedAsked` is needed: the combined requirement has no clause of nobody's, and the version of a
pin is its commit's, or in a name that somebody asked for that commit by (`NamedAs`), which holds when
the lists are merged and one of two pins of a commit is dropped. `OneEach` says that the merge leaves one pin of a name;
`MergesEffect` that it keeps a pin of everything, because what it drops has the commit and the
repository of what it keeps, and one commit declares one thing. `EndsRight` draws the
three conclusions when nothing is queued any more. What a filter leaves of a list is a recursive
function, `KeepOnly`; `Reaches` and `KeepOnlyKeeps` are the induction over its places, by hand.

The rest of `ResolverProofs` is of `Semver`, for all versions and requirements: `CompareMirrors`,
`CompareTransitive`, `NewerSorts` (what sorts the tags is a strict order), `EqualsSatisfyAlike`, `NoHoles`
(a clause's versions are convex) and `IntersectIsBoth`.

Every safety property that a run checks is a theorem, `ReceiveHeld` and `AnswerFresh` under the
restrictions named above. Model-checked only: the liveness
properties (`PendingTimerFires`, `ReadyRuns`, `SupervisorWakes`, `StopReturns`, `PendingServed`,
`ReceiveEnds`, `Returns`, `Ends`), because fairness and ENABLED are out of the prover's reach, and that
`Semver` and the numbers of `Resolver` agree, on one ladder of versions.

## 6. Where the code and its comments disagree

Kept as runs:

- `deadline_lost`: an `after` clause can be lost. A process woken by a message that
  does not match is queued, not blocked; if its deadline passes before it runs, the timer
  is discarded as stale and never registered again. `PendingTimerFires` holds, and
  shows the other half: a timer that is pending while its process is blocked is kept.
- `process_output`: with a limit, the loop asks `waitpid` again for a child it has reaped,
  takes the error for the end, and answers Ok with what it has read so far. A child
  that writes more than two reads' worth and ends in time loses the rest.

Stated in the modules and refuted by TLC on small instances, without a run of their own:

| Statement | What fails |
|---|---|
| `Scheduler!BlamesFirstCrash` | the lowest process id with an error is not the first crash |
| `Scheduler!NameStays` | registering a name again takes it from a live process |
| `WebSocket!DeadlineAnswered` | a second process that receives replaces the pending request of the first, whose `Timeout` and data then never come |
| `WebSocket!LoopOutlastsHandler` | a receive queued behind one that timed out, on a connection the peer has just closed, ends the loop's process instead of being answered by it |
| `ProcessRun!NoStray` | what the child started and that ignores SIGTERM outlives a call that timed out when the child itself does not ignore it |
| `RunCache!EntryAnswerFresh` | two builds that store one entry at once: the list of one vouches for modules of the other |
| `Toolchains!OldKept` | after a crash between publish's renames the next publish begins by deleting the tree put aside, before the new one is in place |
| `Toolchains!OfferedWhole` | a removal that is cut short leaves a tree that still counts as installed |
| `Toolchains!NeverOlder` | `tey upgrade` to an older release (self_update.kex:166-168) swaps the launchers before the runtime, as any upgrade; cut short in between, it leaves launchers older than the runtime, and upgrading again to that runtime's release finds nothing to do |
| `Resolver!AllMet` | an exact tag asked for a name that is pinned already is not compared with the pin |
| `Resolver!SiblingsTogether` | a sibling whose name was pinned before stays at its own commit |
| `Resolver!EachMet` | of two requirements only one asks for pre-releases, and a pre-release passes for both |
| `Resolver!RangesByTags` | "A ref that carries no version (a branch name, a bare commit) gives "", which satisfies nothing and so never claims to meet a range" (semver.kex:120-122); a branch called `v1` carries one, and a range asked later is taken as met by what it holds |
| `Resolver!NotAnothers` | "Prefer that package's namespace when it exists" (resolver.kex:307-308); the test is for the name and `-v` in front, so `http` also takes `http-validator-v2.0.0` |
| `Resolver!OnlyRootGroups` | "Only the ROOT package's groups apply, so a dependency's `group :dev` block is skipped" (resolver.kex:404-407); the git dependencies of a package at a local path are resolved with their groups (250-254) |

## 7. Not modelled, and the plan

Next, in this order:

1. `BeamTask`: results, `DOWN`, timeouts and repeated awaits.
2. An abstract mailbox with timed receives, which `Scheduler` implements as long as no
   deadline is lost; an abstract server (open, draining, closed) that `HttpServer` implements.
3. Two Teys in one home, with the damage they can do to one another.
4. Pure modules against reference definitions: `Retry`, `Queue`; and `Feed` as an
   implementation of a sequence reader.

Not planned: lexer, parser, type checker, IR and emitter, metadata, expansion as such, LSP,
CLI, I/O and socket layers: most of the source by size. They are sequential or stateless, and what
makes them right is a statement about two languages or about a file format, which neither
small instances nor the provers at hand would reach; tests with programs do.
