------------------------------ MODULE PeerConn ------------------------------
(***************************************************************************)
(* One connection between two nodes, with its clocks: the Noise handshake  *)
(* and the hello exchange of internal/transport/{noise,peer,manager}.go,   *)
(* then at each end the send loop with its keepalive timer and write       *)
(* deadline and the receive loop with its idle deadline.                   *)
(*                                                                         *)
(* Time is counted in ticks.  A goroutine that can run does so before the  *)
(* clock moves; handlers and the network take time, up to HandlerMax and   *)
(* Delay.  TCP is a queue of WireCap frames in each direction.  A cut      *)
(* network loses what is under way, closing a connection included.         *)
(***************************************************************************)
EXTENDS Integers, Sequences, FiniteSets

CONSTANTS
    HandshakeTimeout,   \* p.handshakeTimeout
    DefaultTimeouts,    \* [idle, keepalive, write], as in newPeer
    TimeoutOverrides,   \* the same of SetPeerTimeouts and SetPeerWriteTimeout
    Delay,              \* the longest time a frame is under way
    HandlerMax,         \* the longest time a handler of a message takes
    WireCap,            \* frames that fit into the sockets' buffers
    SendCap,            \* capacity of sendCh
    Faulty,             \* ends whose node may stop and whose handlers may hang
    MaxFaults           \* bound: how many things go wrong

Fields == {"idle", "keepalive", "write"}

ASSUME PeerConnAssumption ==
    /\ HandshakeTimeout \in Nat \ {0}
    /\ DefaultTimeouts \in [Fields -> Nat \ {0}] /\ TimeoutOverrides \in [Fields -> Int]
    /\ Delay \in Nat /\ HandlerMax \in Nat
    /\ WireCap \in Nat \ {0} /\ SendCap \in Nat \ {0}
    /\ Faulty \subseteq {"dialer", "acceptor"} /\ MaxFaults \in Nat

\* applyPeerTimeouts: values that are not positive leave the default.
Timeout(f) == IF TimeoutOverrides[f] > 0 THEN TimeoutOverrides[f] ELSE DefaultTimeouts[f]

Ends == {"dialer", "acceptor"}
Other(e) == IF e = "dialer" THEN "acceptor" ELSE "dialer"

VARIABLES
    pos,    \* how many of the five opening messages each end has dealt with
    hello,  \* ticks left of the deadline of ExchangeHello; 0 when it is cleared
    snd,    \* send loop: "off", "select", "data" or "keepalive" being written, "done"
    wleft,  \* ticks left of its write deadline
    timer,  \* ticks left of the keepalive timer, while the send loop waits for it
    queue,  \* number of messages in sendCh
    rcv,    \* receive loop: "off", "read", "handle", "done"
    rleft,  \* ticks left of the idle deadline, or of the handler's time
    wire,   \* frames under way to each end, with the ticks they may still take
    buf,    \* frames in the socket buffer of each end
    closed, \* whether Close has been called
    cut,    \* the network is gone
    stalled,\* ends whose handlers may take any time
    stopped,\* some end was closed by its node
    age     \* ticks since the cut

loops == <<snd, wleft, timer, queue, rcv, rleft>>
opening == <<pos, hello>>
net == <<wire, buf>>
faults == <<cut, stalled, stopped, age>>
vars == <<opening, loops, net, closed, faults>>

\* Longest time an end of a dead connection may take to notice: what is being
\* handled, what is in the socket's buffer, then the idle timeout.
EvictionTime ==
    LET run == Timeout("idle") + (WireCap + 1) * HandlerMax
    IN IF run < HandshakeTimeout THEN HandshakeTimeout ELSE run

Init ==
    /\ pos = [e \in Ends |-> 0] /\ hello = [e \in Ends |-> HandshakeTimeout]
    /\ snd = [e \in Ends |-> "off"] /\ rcv = [e \in Ends |-> "off"]
    /\ wleft = [e \in Ends |-> 0] /\ rleft = [e \in Ends |-> 0]
    /\ timer = [e \in Ends |-> 0] /\ queue = [e \in Ends |-> 0]
    /\ wire = [e \in Ends |-> << >>] /\ buf = [e \in Ends |-> << >>]
    /\ closed = [e \in Ends |-> FALSE]
    /\ cut = FALSE /\ stalled = {} /\ stopped = FALSE /\ age = 0

-----------------------------------------------------------------------------
(* The network.                                                             *)

Room(e) == Len(wire[Other(e)]) + Len(buf[Other(e)]) < WireCap

\* A write of end e that goes through.
Put(e, kind) ==
    /\ Room(e)
    /\ wire' = [wire EXCEPT ![Other(e)] = Append(@, [kind |-> kind, left |-> Delay])]
    /\ UNCHANGED buf

Deliver(e) ==
    /\ ~cut /\ wire[e] # << >>
    /\ wire' = [wire EXCEPT ![e] = Tail(@)]
    /\ buf' = [buf EXCEPT ![e] = Append(@, Head(wire[e]).kind)]
    /\ UNCHANGED <<opening, loops, closed, faults>>

\* The other end has closed the connection and this end can tell.
Reset(e) == closed[Other(e)] /\ ~cut

-----------------------------------------------------------------------------
(* Opening: three messages of the Noise handshake, hello and its ack.       *)

\* The five messages, in their order.
Opening == <<"e", "e ee s es", "s se", "hello", "ack">>
Writer(k) == IF k \in {1, 3, 4} THEN "dialer" ELSE "acceptor"

\* The deadline of the hello exchange starts after the handshake, the loops of
\* Run after the hello exchange.
Advance(e) ==
    /\ pos' = [pos EXCEPT ![e] = @ + 1]
    /\ hello' = [hello EXCEPT ![e] = CASE pos[e] = 2 -> HandshakeTimeout [] pos[e] = 4 -> 0 [] OTHER -> @]
    /\ IF pos[e] = 4
       THEN /\ snd' = [snd EXCEPT ![e] = "select"]
            /\ timer' = [timer EXCEPT ![e] = Timeout("keepalive")]
            /\ rcv' = [rcv EXCEPT ![e] = "read"]
            /\ rleft' = [rleft EXCEPT ![e] = Timeout("idle")]
       ELSE UNCHANGED <<snd, timer, rcv, rleft>>
    /\ UNCHANGED <<wleft, queue, closed, faults>>

WriteOpening(e) ==
    /\ pos[e] < 5 /\ ~closed[e] /\ Writer(pos[e] + 1) = e
    /\ Put(e, Opening[pos[e] + 1])
    /\ Advance(e)

ReadOpening(e) ==
    /\ pos[e] < 5 /\ ~closed[e] /\ Writer(pos[e] + 1) # e
    /\ buf[e] # << >> /\ Head(buf[e]) = Opening[pos[e] + 1]
    /\ buf' = [buf EXCEPT ![e] = Tail(@)]
    /\ UNCHANGED wire
    /\ Advance(e)

\* Handshake and ExchangeHello fail if the connection does; only the latter has
\* a deadline.  The connection is closed.
OpeningFails(e) ==
    /\ pos[e] < 5 /\ ~closed[e]
    /\ Reset(e) \/ (pos[e] >= 3 /\ hello[e] = 0)
    /\ closed' = [closed EXCEPT ![e] = TRUE]
    /\ UNCHANGED <<opening, loops, net, faults>>

-----------------------------------------------------------------------------
(* The send loop.                                                           *)

\* A message is queued, unless the buffer is full.
SendRaw(e) ==
    /\ pos[e] = 5 /\ ~closed[e] /\ queue[e] < SendCap
    /\ queue' = [queue EXCEPT ![e] = @ + 1]
    /\ UNCHANGED <<opening, snd, wleft, timer, rcv, rleft, net, closed, faults>>

\* The send loop starts to write: sendWithDeadline sets the write deadline.
StartWrite(e, kind) ==
    /\ snd' = [snd EXCEPT ![e] = kind]
    /\ wleft' = [wleft EXCEPT ![e] = Timeout("write")]
    /\ timer' = [timer EXCEPT ![e] = 0]
    /\ UNCHANGED <<opening, rcv, rleft, net, closed, faults>>

TakeMessage(e) ==
    /\ snd[e] = "select" /\ queue[e] > 0
    /\ queue' = [queue EXCEPT ![e] = @ - 1]
    /\ StartWrite(e, "data")

WriteKeepalive(e) ==
    /\ snd[e] = "select" /\ timer[e] = 0
    /\ StartWrite(e, "keepalive")
    /\ UNCHANGED queue

\* Fault: the keepalive timer is set to the idle timeout.
WrittenIdle(e) ==
    /\ snd[e] \in {"data", "keepalive"} /\ ~closed[e]
    /\ Put(e, snd[e])
    /\ snd' = [snd EXCEPT ![e] = "select"]
    /\ wleft' = [wleft EXCEPT ![e] = 0]
    /\ timer' = [timer EXCEPT ![e] = Timeout("idle")]
    /\ UNCHANGED <<opening, queue, rcv, rleft, closed, faults>>

\* The write is done, and the keepalive timer starts again.
Written(e) ==
    /\ snd[e] \in {"data", "keepalive"} /\ ~closed[e]
    /\ Put(e, snd[e])
    /\ snd' = [snd EXCEPT ![e] = "select"]
    /\ wleft' = [wleft EXCEPT ![e] = 0]
    /\ timer' = [timer EXCEPT ![e] = Timeout("keepalive")]
    /\ UNCHANGED <<opening, queue, rcv, rleft, closed, faults>>

\* Fault: the loop goes on.
SendLoopGoesOn(e) ==
    /\ \/ snd[e] = "select" /\ closed[e]
       \/ snd[e] \in {"data", "keepalive"} /\ (wleft[e] = 0 \/ closed[e] \/ Reset(e))
    /\ snd' = [snd EXCEPT ![e] = "select"]
    /\ wleft' = [wleft EXCEPT ![e] = 0]
    /\ timer' = [timer EXCEPT ![e] = Timeout("keepalive")]
    /\ UNCHANGED <<opening, queue, rcv, rleft, net, closed, faults>>

\* The write fails, or the loop finds done closed.
SendLoopEnds(e) ==
    /\ \/ snd[e] = "select" /\ closed[e]
       \/ snd[e] \in {"data", "keepalive"} /\ (wleft[e] = 0 \/ closed[e] \/ Reset(e))
    /\ snd' = [snd EXCEPT ![e] = "done"]
    /\ wleft' = [wleft EXCEPT ![e] = 0]
    /\ timer' = [timer EXCEPT ![e] = 0]
    /\ UNCHANGED <<opening, queue, rcv, rleft, net, closed, faults>>

-----------------------------------------------------------------------------
(* The receive loop.                                                        *)

\* The top of the loop: SetReadDeadline, then ReadFrame.
Rearm(e) == rleft' = [rleft EXCEPT ![e] = Timeout("idle")]

\* A frame is read.  Keepalives need no more; everything else goes to a handler.
Read(e) ==
    /\ rcv[e] = "read" /\ ~closed[e] /\ buf[e] # << >>
    /\ buf' = [buf EXCEPT ![e] = Tail(@)]
    /\ IF Head(buf[e]) = "data"
       THEN rcv' = [rcv EXCEPT ![e] = "handle"] /\ rleft' = [rleft EXCEPT ![e] = HandlerMax]
       ELSE Rearm(e) /\ UNCHANGED rcv
    /\ UNCHANGED <<opening, snd, wleft, timer, queue, wire, closed, faults>>

\* The handler (gossip engine, peer exchange) returns.
Handled(e) ==
    /\ rcv[e] = "handle"
    /\ rcv' = [rcv EXCEPT ![e] = "read"]
    /\ Rearm(e)
    /\ UNCHANGED <<opening, snd, wleft, timer, queue, net, closed, faults>>

\* The read fails: idle for too long, or the connection is closed or broken.
RecvLoopEnds(e) ==
    /\ rcv[e] = "read"
    /\ rleft[e] = 0 \/ closed[e] \/ Reset(e)
    /\ rcv' = [rcv EXCEPT ![e] = "done"]
    /\ rleft' = [rleft EXCEPT ![e] = 0]
    /\ UNCHANGED <<opening, snd, wleft, timer, queue, net, closed, faults>>

-----------------------------------------------------------------------------
(* The end of Run, stops, faults and time.                                  *)

\* Fault: Run waits for both loops.
BothEnded(e) == ~closed[e] /\ snd[e] = "done" /\ rcv[e] = "done"

\* Run has seen the first of the loops end.
OneEnded(e) == ~closed[e] /\ (snd[e] = "done" \/ rcv[e] = "done")

RunCloses(e) ==
    /\ OneEnded(e)
    /\ closed' = [closed EXCEPT ![e] = TRUE]
    /\ UNCHANGED <<opening, loops, net, faults>>

\* How often the network has failed, a node has stopped or a handler hangs.
Faults == Cardinality(stalled) + (IF cut THEN 1 ELSE 0) + (IF stopped THEN 1 ELSE 0)

\* Close called by Manager.Stop.
Stop(e) ==
    /\ e \in Faulty /\ Faults < MaxFaults /\ pos[e] = 5 /\ ~closed[e]
    /\ closed' = [closed EXCEPT ![e] = TRUE]
    /\ stopped' = TRUE
    /\ UNCHANGED <<opening, loops, net, cut, stalled, age>>

\* The network goes away, and with it what is under way.
Cut ==
    /\ Faults < MaxFaults /\ ~cut
    /\ cut' = TRUE
    /\ wire' = [e \in Ends |-> << >>]
    /\ UNCHANGED <<opening, loops, buf, closed, stalled, stopped, age>>

\* From now on handlers of e take any time they like.
Stall(e) ==
    /\ e \in Faulty \ stalled /\ Faults < MaxFaults /\ pos[e] = 5
    /\ stalled' = stalled \cup {e}
    /\ UNCHANGED <<opening, loops, net, closed, cut, stopped, age>>

\* Something at end e happens before the clock moves.
Busy(e) ==
    \/ /\ pos[e] < 5 /\ ~closed[e]
       /\ \/ Writer(pos[e] + 1) = e /\ Room(e)
          \/ Writer(pos[e] + 1) # e /\ buf[e] # << >>
          \/ Reset(e)
          \/ pos[e] >= 3 /\ hello[e] = 0
    \/ snd[e] = "select" /\ (queue[e] > 0 \/ timer[e] = 0 \/ closed[e])
    \/ snd[e] \in {"data", "keepalive"} /\ (Room(e) \/ wleft[e] = 0 \/ closed[e] \/ Reset(e))
    \/ rcv[e] = "read" /\ (buf[e] # << >> \/ rleft[e] = 0 \/ closed[e] \/ Reset(e))
    \/ rcv[e] = "handle" /\ rleft[e] = 0 /\ e \notin stalled
    \/ OneEnded(e)
    \/ ~cut /\ wire[e] # << >> /\ Head(wire[e]).left = 0

Down(k) == IF k = 0 THEN 0 ELSE k - 1

Tick ==
    /\ \A e \in Ends : ~Busy(e)
    /\ hello' = [e \in Ends |-> IF pos[e] \in {3, 4} THEN Down(hello[e]) ELSE hello[e]]
    /\ wleft' = [e \in Ends |-> Down(wleft[e])]
    /\ timer' = [e \in Ends |-> Down(timer[e])]
    /\ rleft' = [e \in Ends |-> Down(rleft[e])]
    /\ wire' = [e \in Ends |-> [i \in DOMAIN wire[e] |->
                                  [wire[e][i] EXCEPT !.left = Down(@)]]]
    /\ age' = IF cut /\ age <= EvictionTime THEN age + 1 ELSE age
    /\ UNCHANGED <<pos, snd, queue, rcv, buf, closed, cut, stalled, stopped>>

Step(e) ==
    \/ Deliver(e)
    \/ WriteOpening(e) \/ ReadOpening(e) \/ OpeningFails(e)
    \/ TakeMessage(e) \/ WriteKeepalive(e) \/ Written(e) \/ SendLoopEnds(e)
    \/ Read(e) \/ Handled(e) \/ RecvLoopEnds(e) \/ RunCloses(e)

Next ==
    \/ \E e \in Ends : Step(e) \/ SendRaw(e) \/ Stop(e) \/ Stall(e)
    \/ Cut \/ Tick

Spec == Init /\ [][Next]_vars

\* The clock goes on, frames arrive, goroutines run.  A handler that hangs
\* returns in the end.  The two goroutines of an end are scheduled separately.
FairSpec ==
    /\ Spec /\ WF_vars(Tick)
    /\ \A e \in Ends :
         /\ WF_vars(Deliver(e))
         /\ WF_vars(WriteOpening(e) \/ ReadOpening(e) \/ OpeningFails(e))
         /\ WF_vars(TakeMessage(e) \/ WriteKeepalive(e) \/ Written(e) \/ SendLoopEnds(e))
         /\ WF_vars(Read(e) \/ Handled(e) \/ RecvLoopEnds(e))
         /\ WF_vars(RunCloses(e))

-----------------------------------------------------------------------------
(* Properties.                                                              *)

\* What the timeouts must be, compared with the network and the handlers, for a
\* healthy connection to stay up.  The hello exchange takes three messages if the
\* sockets hold only one.  The idle deadline of the acceptor runs while its ack is
\* under way, while the dialer waits for its keepalive timer, and while the
\* keepalive is under way.  A write waits for a frame to arrive or for a handler.
Timely ==
    /\ HandshakeTimeout > 3 * Delay
    /\ Timeout("idle") > Timeout("keepalive") + 2 * Delay
    /\ Timeout("write") > Delay /\ Timeout("write") > HandlerMax

\* As long as nothing fails, neither end gives up: the keepalives of one end
\* arrive before the idle deadline of the other and no write waits too long, if
\* the timeouts are Timely, whatever is sent in between and however long handlers
\* take (sendLoop, recvLoop).
HealthyStaysUp ==
    (~cut /\ ~stopped /\ stalled = {}) =>
        \A e \in Ends : ~closed[e] /\ snd[e] # "done" /\ rcv[e] # "done"

\* An end that is past the Noise handshake gives up a dead connection in time:
\* within the idle timeout, and the time for what has already arrived.
DeadNoticed ==
    (age > EvictionTime /\ stalled = {}) => \A e \in Ends : pos[e] >= 3 => closed[e]

\* When one loop of Run ends or Close is called, the connection is closed and
\* the other loop ends too, so that Run returns and the peer is removed.
LoopsEnd ==
    \A e \in Ends :
        (closed[e] \/ snd[e] = "done" \/ rcv[e] = "done")
            ~> (closed[e] /\ snd[e] \in {"off", "done"} /\ rcv[e] \in {"off", "done"})
=============================================================================
