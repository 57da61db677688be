------------------------------ MODULE WebSocket ------------------------------
(***************************************************************************)
(* The server side of one WebSocket connection                             *)
(* (runtime/src/kex_intrinsic_netwebsocket.erl): the HTTP worker has       *)
(* become the connection's message loop (accept, server_loop), a fresh     *)
(* process runs the application's handler, and the handler and any process *)
(* it gives the connection to send, receive and close by calls into the    *)
(* loop's mailbox.                                                         *)
(*                                                                         *)
(* The loop never blocks on the socket.  A receive that finds no message   *)
(* among the buffered frames becomes the pending request, and the socket   *)
(* is armed for one delivery ({active, once}).  A receive may carry a      *)
(* bound; the loop alone keeps that clock.                                 *)
(*                                                                         *)
(* Messages are numbered in the order in which the peer sends them, and    *)
(* come whole or in two fragments.  Bytes, masks and handshakes are left   *)
(* out.                                                                    *)
(***************************************************************************)
EXTENDS Integers, SequencesExt

CONSTANTS
    Handler,     \* the process that runs the application's handler
    Others,      \* further processes that hold the connection
    Readers,     \* the processes that call receiveMessage
    MaxMessages, \* bound: messages the peer sends
    MaxPings,    \* bound: pings the peer sends
    MaxCalls     \* bound: calls into the loop

Holders == {Handler} \cup Others

ASSUME WebSocketAssumption ==
    /\ Handler \notin Others
    /\ Readers \subseteq Holders
    /\ MaxMessages \in Nat
    /\ MaxPings \in Nat
    /\ MaxCalls \in Nat

Ref == 1 .. MaxCalls

\* whole: a message in one frame; part and end: its fragments; closing: a close
\* frame, or one that breaks the protocol.
Frame(kind, id) == [kind |-> kind, id |-> id]
Frames ==
    [kind : {"whole", "part", "end"}, id : 1 .. MaxMessages]
      \cup [kind : {"ping", "closing"}, id : {0}]

Request(x, r) == [from |-> x, ref |-> r]
NoRequest == Request(Handler, 0)
Requests == {Request(x, r) : x \in Holders, r \in 0 .. MaxCalls}

Letter(tag, request, frames) == [tag |-> tag, request |-> request, frames |-> frames]
Tags == {"send", "close", "receive", "receiveWithin", "receive_timeout", "tcp",
         "tcp_closed", "DOWN"}

Idle == [op |-> "none", ref |-> 0]
Receives == {"receive", "receiveWithin"}

VARIABLES
    loop,     \* the loop's process: running, over, crashed or killed
    box,      \* its mailbox
    closed,   \* Closed
    pending,  \* Pending
    buffer,   \* Buffer: the frames received and not looked at
    fragment, \* Fragment: the message whose first part was looked at
    timers,   \* send_after timers that have not fired
    socket,   \* whether the port is open
    armed,    \* {active, once}
    wire,     \* frames the kernel holds
    peer,     \* whether the peer has closed its side
    begun,    \* messages the peer has begun
    open,     \* whether the last of them is still incomplete
    pings,    \* pings the peer has sent
    handler,  \* whether the handler still runs
    call,     \* each holder's call under way
    nextRef,  \* make_ref
    got       \* history: the messages callers were given, in order

loopVars == <<loop, closed, pending, buffer, fragment>>
netVars == <<wire, peer, begun, open, pings>>
vars == <<loopVars, box, timers, socket, armed, netVars, handler, call, nextRef, got>>

\* accept: the request's own bytes may have held the first message already.
Init ==
    /\ loop = "running"
    /\ box = <<>>
    /\ closed = FALSE
    /\ pending = NoRequest
    /\ begun \in {0, 1} \cap 0 .. MaxMessages
    /\ buffer = [i \in 1 .. begun |-> Frame("whole", i)]
    /\ fragment = 0
    /\ timers = {}
    /\ socket = "open"
    /\ armed = FALSE
    /\ wire = <<>>
    /\ peer = "up"
    /\ open = FALSE
    /\ pings = 0
    /\ handler = "runs"
    /\ call = [x \in Holders |-> Idle]
    /\ nextRef = 1
    /\ got = <<>>

(***************************************************************************)
(* The callers (call/3).                                                   *)
(***************************************************************************)
Ask(x, op) ==
    /\ call[x] = Idle
    /\ x = Handler => handler = "runs"
    /\ op \in Receives => x \in Readers
    /\ loop = "running"
    /\ nextRef \in Ref
    /\ nextRef' = nextRef + 1
    /\ call' = [call EXCEPT ![x] = [op |-> op, ref |-> nextRef]]
    /\ box' = Append(box, Letter(op, Request(x, nextRef), <<>>))
    /\ UNCHANGED <<loopVars, timers, socket, armed, netVars, handler, got>>

\* The monitor: the loop is gone, the call is answered with Closed.
SeesDown(x) ==
    /\ loop # "running" /\ call[x] # Idle
    /\ call' = [call EXCEPT ![x] = Idle]
    /\ UNCHANGED <<loopVars, box, timers, socket, armed, netVars, handler, nextRef, got>>

\* after 31000, for every call but a receive
GivesUp(x) ==
    /\ call[x].op \in {"send", "close"}
    /\ call' = [call EXCEPT ![x] = Idle]
    /\ UNCHANGED <<loopVars, box, timers, socket, armed, netVars, handler, nextRef, got>>

\* The handler's function returns or crashes; the loop's monitor reports it.
HandlerEnds ==
    /\ handler = "runs" /\ call[Handler] = Idle
    /\ handler' = "ended"
    /\ box' = IF loop = "running" THEN Append(box, Letter("DOWN", NoRequest, <<>>)) ELSE box
    /\ UNCHANGED <<loopVars, timers, socket, armed, netVars, call, nextRef, got>>

(***************************************************************************)
(* What the loop's clauses share.                                          *)
(***************************************************************************)
Takes(letter) ==
    loop = "running" /\ box # <<>> /\ Head(box) = letter /\ box' = Tail(box)

\* The callers behind these requests, if they still wait, have an answer.
Answer(requests) ==
    call' = [x \in Holders |-> IF Request(x, call[x].ref) \in requests THEN Idle ELSE call[x]]

Waits(p) == p.ref # 0 /\ call[p.from].ref = p.ref

\* transport_close, a lost port: the kernel's frames are gone with it.
TransportClosed ==
    /\ socket' = "closed"
    /\ armed' = FALSE
    /\ wire' = <<>>
    /\ UNCHANGED <<peer, begun, open, pings>>

TransportKept == UNCHANGED <<socket, armed, netVars>>

\* Faulty: the pending request stays unanswered.
ShutForgettingPending(requests) ==
    /\ closed' = TRUE
    /\ pending' = NoRequest
    /\ Answer(requests)

\* Closed becomes true: the pending request is answered, with these others.
Shut(requests) ==
    /\ closed' = TRUE
    /\ pending' = NoRequest
    /\ Answer(requests \cup {pending})

\* The message under way after the first i frames, none of which ends it.
FragmentAfter(frames, i) ==
    IF \E j \in 1 .. i : frames[j].kind = "part"
    THEN frames[CHOOSE j \in 1 .. i : frames[j].kind = "part"].id
    ELSE fragment

\* The frames a receive reads over: pings, which it answers, and first parts.
ReadsOver(frames, i) == \A j \in 1 .. i : frames[j].kind \in {"ping", "part"}

\* A message is complete at frame i.
Completes(frames, i) ==
    /\ ReadsOver(frames, i - 1)
    /\ \/ frames[i].kind = "whole" /\ FragmentAfter(frames, i - 1) = 0
       \/ frames[i].kind = "end" /\ FragmentAfter(frames, i - 1) = frames[i].id

\* Reading stops for good at frame i: a closing frame, a frame that does not
\* fit the fragment, or a pong that can no longer be sent.
StopsAt(frames, i) ==
    /\ ReadsOver(frames, i - 1)
    /\ \/ frames[i].kind = "closing"
       \/ frames[i].kind \in {"whole", "end"} /\ ~Completes(frames, i)
       \/ frames[i].kind = "ping" /\ peer = "away"

\* Faulty: the outcome of inet:setopts is not looked at.
ArmUnchecked == armed' = TRUE /\ UNCHANGED loop

\* inet:setopts, {active, once}: on a lost port it is an error, and the match
\* with ok takes the loop's process down.
Arm ==
    IF socket = "open"
    THEN armed' = TRUE /\ UNCHANGED loop
    ELSE loop' = "crashed" /\ UNCHANGED armed

\* server_try_receive reaches a message or the end of reading, and its caller
\* answers request p with it; a request that was pending is dropped.
ReadDone(frames, p) ==
    /\ \E i \in DOMAIN frames :
         /\ \/ /\ Completes(frames, i)
               /\ got' = IF Waits(p) THEN Append(got, frames[i].id) ELSE got
               /\ UNCHANGED closed
            \/ StopsAt(frames, i) /\ closed' = TRUE /\ UNCHANGED got
         /\ buffer' = SubSeq(frames, i + 1, Len(frames))
    /\ Answer({p})
    /\ pending' = NoRequest
    /\ fragment' = 0
    /\ UNCHANGED <<loop, timers, armed>>

\* It needs more frames: p becomes the pending request, with its deadline.
ReadPending(frames, p, bound) ==
    /\ ReadsOver(frames, Len(frames))
    /\ pending' = p
    /\ timers' = IF bound THEN timers \cup {p} ELSE timers
    /\ buffer' = <<>>
    /\ fragment' = FragmentAfter(frames, Len(frames))
    /\ UNCHANGED <<closed, call, got>>

\* Faulty: the socket is left as it is.
ReadUnarmed(frames, p, bound) ==
    \/ ReadDone(frames, p)
    \/ ReadPending(frames, p, bound) /\ UNCHANGED <<loop, armed>>

\* A read for request p over these frames.
Read(frames, p, bound) ==
    \/ ReadDone(frames, p)
    \/ ReadPending(frames, p, bound) /\ Arm

(***************************************************************************)
(* The loop's clauses.                                                     *)
(***************************************************************************)
AnswerClosed(p) ==
    /\ closed
    /\ Answer({p})
    /\ TransportKept
    /\ UNCHANGED <<loopVars, timers, handler, nextRef, got>>

TakeSend(p) ==
    /\ Takes(Letter("send", p, <<>>))
    /\ \/ AnswerClosed(p)
       \/ /\ ~closed /\ socket = "open"
          /\ Answer({p})
          /\ TransportKept
          /\ UNCHANGED <<loopVars, timers, handler, nextRef, got>>
       \* an invalid message, or one that cannot be sent
       \/ /\ ~closed
          /\ Shut({p})
          /\ TransportClosed
          /\ UNCHANGED <<loop, buffer, fragment, timers, handler, nextRef, got>>

TakeReceive(p, op) ==
    /\ Takes(Letter(op, p, <<>>))
    /\ \/ AnswerClosed(p)
       \/ /\ ~closed
          /\ Read(buffer, p, op = "receiveWithin")
          /\ UNCHANGED <<socket, netVars, handler, nextRef>>

\* Faulty: the request that has just timed out stays the pending one.
TakeTimeoutKeepsPending(p) ==
    /\ Takes(Letter("receive_timeout", p, <<>>))
    /\ Answer({p} \cap {pending})
    /\ TransportKept
    /\ UNCHANGED <<loopVars, timers, handler, nextRef, got>>

\* Only the pending request can still time out.
TakeTimeout(p) ==
    /\ Takes(Letter("receive_timeout", p, <<>>))
    /\ pending' = IF pending = p THEN NoRequest ELSE pending
    /\ Answer({p} \cap {pending})
    /\ TransportKept
    /\ UNCHANGED <<loop, closed, buffer, fragment, timers, handler, nextRef, got>>

TakeClose(p) ==
    /\ Takes(Letter("close", p, <<>>))
    /\ Shut({p})
    /\ IF closed THEN TransportKept ELSE TransportClosed
    /\ UNCHANGED <<loop, buffer, fragment, timers, handler, nextRef, got>>

\* Faulty: data nobody waits for is dropped.
TakeDataDropped(frames) ==
    /\ Takes(Letter("tcp", NoRequest, frames))
    /\ IF pending = NoRequest
       THEN UNCHANGED <<loopVars, timers, armed, call, got>>
       ELSE Read(buffer \o frames, pending, FALSE)
    /\ UNCHANGED <<socket, netVars, handler, nextRef>>

TakeData(frames) ==
    /\ Takes(Letter("tcp", NoRequest, frames))
    /\ IF pending = NoRequest
       THEN /\ buffer' = buffer \o frames
            /\ UNCHANGED <<loop, closed, pending, fragment, timers, armed, call, got>>
       ELSE Read(buffer \o frames, pending, FALSE)
    /\ UNCHANGED <<socket, netVars, handler, nextRef>>

\* tcp_closed and tcp_error
TakeTcpClosed ==
    /\ Takes(Letter("tcp_closed", NoRequest, <<>>))
    /\ Shut({})
    /\ TransportKept
    /\ UNCHANGED <<loop, buffer, fragment, timers, handler, nextRef, got>>

\* The loop's process is over: with it go its mailbox, its state and its port.
Gone(how) ==
    /\ loop' = how
    /\ box' = <<>>
    /\ buffer' = <<>>
    /\ fragment' = 0
    /\ timers' = {}
    /\ TransportClosed
    /\ UNCHANGED <<handler, nextRef, got>>

TakeDown ==
    /\ loop = "running" /\ box # <<>> /\ Head(box) = Letter("DOWN", NoRequest, <<>>)
    /\ Shut({})
    /\ Gone("over")

\* The forced end of a graceful shutdown.
Killed ==
    /\ loop = "running"
    /\ Gone("killed")
    /\ UNCHANGED <<closed, pending, call>>

(***************************************************************************)
(* The clock, the kernel and the peer.                                     *)
(***************************************************************************)
TimerFires(p) ==
    /\ p \in timers /\ loop = "running"
    /\ timers' = timers \ {p}
    /\ box' = Append(box, Letter("receive_timeout", p, <<>>))
    /\ UNCHANGED <<loopVars, socket, armed, netVars, handler, call, nextRef, got>>

\* An armed socket delivers once: any of the frames it has, in order.
Deliver ==
    /\ armed
    /\ \E n \in 1 .. Len(wire) :
         /\ box' = Append(box, Letter("tcp", NoRequest, SubSeq(wire, 1, n)))
         /\ wire' = SubSeq(wire, n + 1, Len(wire))
    /\ armed' = FALSE
    /\ UNCHANGED <<loopVars, timers, socket, peer, begun, open, pings, handler, call, nextRef,
                   got>>

\* ... or that the peer has closed; the port is closed with it.
DeliverClosed ==
    /\ armed /\ wire = <<>> /\ peer = "away"
    /\ box' = Append(box, Letter("tcp_closed", NoRequest, <<>>))
    /\ socket' = "closed"
    /\ armed' = FALSE
    /\ UNCHANGED <<loopVars, timers, netVars, handler, call, nextRef, got>>

\* The peer sends a frame of a kind it may send now.
PeerSends(kind) ==
    /\ peer = "up" /\ socket = "open" /\ loop = "running"
    /\ CASE kind \in {"whole", "part"} -> ~open /\ begun < MaxMessages
         [] kind = "end" -> open
         [] kind = "ping" -> pings < MaxPings
         [] kind = "closing" -> TRUE
    /\ begun' = IF kind \in {"whole", "part"} THEN begun + 1 ELSE begun
    /\ open' = IF kind = "part" THEN TRUE ELSE IF kind = "end" THEN FALSE ELSE open
    /\ pings' = IF kind = "ping" THEN pings + 1 ELSE pings
    /\ wire' = Append(wire, Frame(kind, IF kind \in {"ping", "closing"} THEN 0 ELSE begun'))
    /\ peer' = IF kind = "closing" THEN "away" ELSE peer
    /\ UNCHANGED <<loopVars, box, timers, socket, armed, handler, call, nextRef, got>>

\* The peer's end closes, or resets the connection and what is under way is lost.
PeerLeaves ==
    /\ peer = "up" /\ socket = "open" /\ loop = "running"
    /\ peer' = "away"
    /\ wire' \in {wire, <<>>}
    /\ UNCHANGED <<loopVars, box, timers, socket, armed, begun, open, pings, handler, call,
                   nextRef, got>>

(***************************************************************************)
(* The system.                                                             *)
(***************************************************************************)
Loop ==
    \/ \E p \in Requests :
         \/ TakeSend(p) \/ TakeClose(p) \/ TakeTimeout(p)
         \/ \E op \in Receives : TakeReceive(p, op)
    \/ box # <<>> /\ TakeData(Head(box).frames)
    \/ TakeTcpClosed \/ TakeDown

Kernel == Deliver \/ DeliverClosed

Next ==
    \/ Loop \/ Kernel \/ HandlerEnds \/ Killed \/ PeerLeaves
    \/ \E x \in Holders :
         SeesDown(x) \/ GivesUp(x) \/ \E op \in {"send", "close"} \cup Receives : Ask(x, op)
    \/ \E p \in Requests : TimerFires(p)
    \/ \E kind \in {"whole", "part", "end", "ping", "closing"} : PeerSends(kind)

Spec == Init /\ [][Next]_vars

\* The BEAM runs a process that has a message, timers fire, an armed socket
\* delivers what it has, and a monitor's DOWN arrives.
FairSpec ==
    /\ Spec
    /\ WF_vars(Loop)
    /\ WF_vars(Kernel)
    /\ \A p \in Requests : WF_vars(TimerFires(p))
    /\ \A x \in Holders : WF_vars(SeesDown(x))

(***************************************************************************)
(* Properties.                                                             *)
(***************************************************************************)
\* Every variable has its type, and only an open port is armed.
TypeOK ==
    /\ loop \in {"running", "over", "crashed", "killed"}
    /\ box \in Seq([tag : Tags, request : Requests, frames : Seq(Frames)])
    /\ closed \in BOOLEAN
    /\ pending \in Requests
    /\ buffer \in Seq(Frames)
    /\ fragment \in 0 .. MaxMessages
    /\ timers \subseteq Requests
    /\ socket \in {"open", "closed"}
    /\ armed \in BOOLEAN /\ (armed => socket = "open")
    /\ wire \in Seq(Frames)
    /\ peer \in {"up", "away"}
    /\ begun \in 0 .. MaxMessages
    /\ open \in BOOLEAN /\ (open => begun > 0)
    /\ pings \in 0 .. MaxPings
    /\ handler \in {"runs", "ended"}
    /\ call \in [Holders -> [op : {"none", "send", "close"} \cup Receives, ref : 0 .. MaxCalls]]
    /\ nextRef \in 1 .. (MaxCalls + 1)
    /\ got \in Seq(1 .. MaxMessages)

Queued(p) == \E i \in DOMAIN box : box[i].request = p /\ box[i].tag \in Receives

Receiving(x) == call[x].op \in Receives

\* Callers get the peer's messages in order and without a gap: a message that
\* arrives around a timeout is neither lost nor handed to the request that has
\* just been given up, nor is one in fragments.
InOrder == \A i \in DOMAIN got : got[i] = i

\* "Pending is always a request someone is still waiting on", and the socket is
\* listened to meanwhile: it is armed, or something it delivered is in the
\* mailbox.
PendingWaited ==
    loop = "running" /\ pending # NoRequest =>
      /\ Waits(pending)
      /\ armed \/ \E i \in DOMAIN box : box[i].tag \in {"tcp", "tcp_closed"}

\* What the above rests on: a request is asked once, a queued receive still has
\* its caller, and so has the pending one.
Asks(letter) == letter.tag \in {"send", "close"} \cup Receives

Numbered ==
    /\ \A x \in Holders :
         /\ call[x].op = "none" => call[x].ref = 0
         /\ call[x].op # "none" => call[x].ref \in 1 .. nextRef - 1
         /\ Receiving(x) => x \in Readers
    /\ loop = "running" =>
         /\ \A i \in DOMAIN box : Asks(box[i]) =>
              box[i].request.ref \in 1 .. nextRef - 1 /\ box[i].request # pending
         /\ \A i, j \in DOMAIN box :
              Asks(box[i]) /\ Asks(box[j]) /\ box[i].request = box[j].request => i = j
         /\ \A i \in DOMAIN box : box[i].tag \in Receives =>
              call[box[i].request.from] = [op |-> box[i].tag, ref |-> box[i].request.ref]
         /\ pending # NoRequest => Receiving(pending.from)

Consistent == TypeOK /\ PendingWaited /\ Numbered

\* A caller in a receive is known to the loop, or the loop is gone and the
\* monitor will tell: its request is queued or pending.
ReceiveHeld ==
    \A x \in Holders : Receiving(x) /\ loop = "running" =>
      LET p == Request(x, call[x].ref) IN Queued(p) \/ pending = p

\* A bounded receive ends, and every receive ends once the peer has left,
\* without a clock of the caller's own.
ReceiveEnds ==
    \A x \in Holders :
      (call[x].op = "receiveWithin" \/ (Receiving(x) /\ peer = "away")) ~> ~Receiving(x)

\* What the documentation of receiveMessage(timeout:) says: it "gives up and
\* answers +Timeout+ once +duration+ elapses without a message"
\* (src/src/stdlib/net/http/websocket.kex:149-150).  A caller in a bounded receive
\* therefore has its request queued, or its deadline running or about to be
\* looked at.
DeadlineAnswered ==
    \A x \in Holders : call[x].op = "receiveWithin" /\ loop = "running" =>
      LET p == Request(x, call[x].ref)
      IN  \/ Queued(p)
          \/ p \in timers
          \/ \E i \in DOMAIN box : box[i] = Letter("receive_timeout", p, <<>>)

\* What accept's comment says: it "Blocks until the handler returns (or
\* crashes), which is what lets the HTTP server's own handler bookkeeping and
\* graceful shutdown keep working" (kex_intrinsic_netwebsocket.erl:158-160).
\* Only the kill of a forced shutdown may end it earlier.
LoopOutlastsHandler == loop \in {"over", "crashed"} => handler = "ended"
=============================================================================
