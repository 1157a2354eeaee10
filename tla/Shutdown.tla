------------------------------ MODULE Shutdown ------------------------------
(***************************************************************************)
(* How a node goes down: main, the SSH server of internal/ssh/server.go    *)
(* with a goroutine for every connection, session and printer, the receive *)
(* loops of the transport, and the hub they all call.                      *)
(*                                                                         *)
(* main cancels the context, stops the transport, stops the SSH server,    *)
(* which waits for its goroutines, and stops the hub, in this order.  The  *)
(* hub is what module Hub says of it: while it runs it serves every call,  *)
(* afterwards none, and its queue takes QueueCap messages.  A client has   *)
(* one connection with at most one session; it may do anything at any      *)
(* time, or nothing, reading its terminal included.                        *)
(*                                                                         *)
(* The specification is DownSpec, so that one module can extend this one   *)
(* and Startup.                                                            *)
(***************************************************************************)
EXTENDS Integers, FiniteSets

CONSTANTS
    Clients,     \* SSH clients
    Receivers,   \* receive loops of peer connections
    QueueCap     \* capacity of the hub's broadcast channel

ASSUME ShutdownAssumption == QueueCap \in Nat \ {0}

VARIABLES
    main,      \* "run", "cancelled", "transport", "stopping", "drained", "exited"
    timedOut,  \* the wait of Stop ended by its timeout
    listener,  \* "none", "open", "closed"
    serve,     \* Serve: "start", "accept", "accepted", "returned"
    pending,   \* the connection that Serve has accepted and not yet registered
    stopping,  \* s.stopping
    conns,     \* s.conns
    sock,      \* connection of each client: "none", "backlog", "open", "closed"
    handler,   \* handleConnection: "none", "handshake", "channels", "waiting", "unwind", "close", "done"
    term,      \* handleSession: "none", "requests", "joining", "reading", "posting", "leaving", "draining", "closing", "done"
    printer,   \* printer goroutine: "none", "on", "done"
    hubUp,     \* the hub serves calls
    joined,    \* sessions in the hub's map
    queue,     \* messages in the hub's broadcast channel
    recv,      \* peer connections: "opening", then the receive loop: "reading", "delivering", "done"
    shut       \* peer connections that Manager.Stop has closed

server == <<listener, serve, pending, stopping, conns, sock, handler>>
sessions == <<term, printer>>
hub == <<hubUp, joined, queue>>
peers == <<recv, shut>>
downVars == <<main, timedOut, server, sessions, hub, peers>>

Nobody == "nobody"

DownInit ==
    /\ main = "run" /\ timedOut = FALSE
    /\ listener = "none" /\ serve = "start" /\ pending = Nobody
    /\ stopping = FALSE /\ conns = {}
    /\ sock = [c \in Clients |-> "none"] /\ handler = [c \in Clients |-> "none"]
    /\ term = [c \in Clients |-> "none"] /\ printer = [c \in Clients |-> "none"]
    /\ hubUp = TRUE /\ joined = {} /\ queue = 0
    /\ recv = [r \in Receivers |-> "opening"] /\ shut = {}

-----------------------------------------------------------------------------
(* Clients.                                                                 *)

Connect(c) ==
    /\ listener = "open" /\ sock[c] = "none"
    /\ sock' = [sock EXCEPT ![c] = "backlog"]
    /\ UNCHANGED <<main, timedOut, listener, serve, pending, stopping, conns, handler, sessions, hub, peers>>

Disconnect(c) ==
    /\ sock[c] = "open"
    /\ sock' = [sock EXCEPT ![c] = "closed"]
    /\ UNCHANGED <<main, timedOut, listener, serve, pending, stopping, conns, handler, sessions, hub, peers>>

\* Closing the listener resets the connections that wait to be accepted.
Unaccepted(s) == [c \in Clients |-> IF s[c] = "backlog" THEN "closed" ELSE s[c]]

-----------------------------------------------------------------------------
(* Listen and Serve.                                                        *)

Listen ==
    /\ serve = "start"
    /\ listener' = "open" /\ serve' = "accept"
    /\ UNCHANGED <<main, timedOut, pending, stopping, conns, sock, handler, sessions, hub, peers>>

Accept(c) ==
    /\ serve = "accept" /\ listener = "open" /\ sock[c] = "backlog"
    /\ serve' = "accepted" /\ pending' = c
    /\ sock' = [sock EXCEPT ![c] = "open"]
    /\ UNCHANGED <<main, timedOut, listener, stopping, conns, handler, sessions, hub, peers>>

\* Fault: Serve does not look at s.stopping.
RegisterAlways ==
    /\ serve = "accepted"
    /\ serve' = "accept" /\ pending' = Nobody
    /\ conns' = conns \cup {pending}
    /\ handler' = [handler EXCEPT ![pending] = "handshake"]
    /\ UNCHANGED <<main, timedOut, listener, stopping, sock, sessions, hub, peers>>

\* Under s.mu: register the connection and start its goroutine, or refuse it
\* if the server is stopping.
Register ==
    /\ serve = "accepted" /\ pending' = Nobody
    /\ IF stopping
       THEN /\ serve' = "returned"
            /\ sock' = [sock EXCEPT ![pending] = "closed"]
            /\ UNCHANGED <<conns, handler>>
       ELSE /\ serve' = "accept"
            /\ conns' = conns \cup {pending}
            /\ handler' = [handler EXCEPT ![pending] = "handshake"]
            /\ UNCHANGED sock
    /\ UNCHANGED <<main, timedOut, listener, stopping, sessions, hub, peers>>

\* Accept fails on a closed listener; Serve returns if the context is cancelled
\* and otherwise tries again.
AcceptFails ==
    /\ serve = "accept" /\ listener = "closed" /\ main # "run"
    /\ serve' = "returned"
    /\ UNCHANGED <<main, timedOut, listener, pending, stopping, conns, sock, handler, sessions, hub, peers>>

\* The goroutine of Serve that waits for the context.
CloseListener ==
    /\ main # "run" /\ serve # "start" /\ listener = "open"
    /\ listener' = "closed" /\ sock' = Unaccepted(sock)
    /\ UNCHANGED <<main, timedOut, serve, pending, stopping, conns, handler, sessions, hub, peers>>

-----------------------------------------------------------------------------
(* handleConnection.                                                        *)

Handle(c, from, to) ==
    /\ handler[c] = from
    /\ handler' = [handler EXCEPT ![c] = to]
    /\ UNCHANGED <<main, timedOut, listener, serve, pending, stopping, printer, hub, peers>>

\* NewServerConn and publicKeyCallback.
Authenticate(c) ==
    /\ sock[c] = "open" /\ Handle(c, "handshake", "channels")
    /\ UNCHANGED <<conns, sock, term>>

\* The handshake fails: unknown key, or the connection is closed.
HandshakeFails(c) ==
    /\ Handle(c, "handshake", "unwind")
    /\ UNCHANGED <<conns, sock, term>>

OpenSession(c) ==
    /\ sock[c] = "open" /\ term[c] = "none" /\ Handle(c, "channels", "channels")
    /\ term' = [term EXCEPT ![c] = "requests"]
    /\ UNCHANGED <<conns, sock>>

\* The range over chans ends with the connection.
ChannelsEnd(c) ==
    /\ sock[c] = "closed" /\ Handle(c, "channels", "waiting")
    /\ UNCHANGED <<conns, sock, term>>

\* sessionWg.Wait
SessionsDone(c) ==
    /\ term[c] \in {"none", "done"} /\ Handle(c, "waiting", "unwind")
    /\ UNCHANGED <<conns, sock, term>>

\* The deferred calls: removeConn, then Close and wg.Done.
RemoveConn(c) ==
    /\ Handle(c, "unwind", "close")
    /\ conns' = conns \ {c}
    /\ UNCHANGED <<sock, term>>

CloseConn(c) ==
    /\ Handle(c, "close", "done")
    /\ sock' = [sock EXCEPT ![c] = "closed"]
    /\ UNCHANGED <<conns, term>>

-----------------------------------------------------------------------------
(* handleSession and runTerminal, with the calls into the hub.              *)

Go(c, from, to) ==
    /\ term[c] = from
    /\ term' = [term EXCEPT ![c] = to]
    /\ UNCHANGED <<main, timedOut, server, hubUp, peers>>

\* Requests until "shell"; without it the session ends with the connection.
Shell(c) ==
    /\ sock[c] = "open" /\ Go(c, "requests", "joining")
    /\ UNCHANGED <<printer, joined, queue>>

RequestsEnd(c) ==
    /\ sock[c] = "closed" /\ Go(c, "requests", "done")
    /\ UNCHANGED <<printer, joined, queue>>

Join(c) ==
    /\ hubUp /\ Go(c, "joining", "reading")
    /\ joined' = joined \cup {c}
    /\ printer' = [printer EXCEPT ![c] = "on"]
    /\ UNCHANGED queue

\* The user types a line; Broadcast waits for room in the queue.
Type(c) ==
    /\ sock[c] = "open" /\ Go(c, "reading", "posting")
    /\ UNCHANGED <<printer, joined, queue>>

Broadcast(c) ==
    /\ queue < QueueCap /\ Go(c, "posting", "reading")
    /\ queue' = queue + 1
    /\ UNCHANGED <<printer, joined>>

\* The user quits, or the read fails.
StopReading(c) ==
    /\ Go(c, "reading", "leaving")
    /\ UNCHANGED <<printer, joined, queue>>

Leave(c) ==
    /\ hubUp /\ Go(c, "leaving", "draining")
    /\ joined' = joined \ {c}
    /\ UNCHANGED <<printer, queue>>

\* The printer writes what is left in the session's channel, once that is
\* closed, and ends.  While the connection is open the client may keep it waiting.
PrinterEnds(c) ==
    /\ printer[c] = "on" /\ (~hubUp \/ c \notin joined)
    /\ printer' = [printer EXCEPT ![c] = "done"]
    /\ UNCHANGED <<main, timedOut, server, term, hub, peers>>

Drained(c) ==
    /\ printer[c] = "done" /\ Go(c, "draining", "closing")
    /\ UNCHANGED <<printer, joined, queue>>

\* handleSession closes the channel and waits until its requests end, when the
\* client agrees or the connection is closed.
SessionEnds(c) ==
    /\ Go(c, "closing", "done")
    /\ UNCHANGED <<printer, joined, queue>>

-----------------------------------------------------------------------------
(* The hub and the receive loops.                                           *)

HubTakes ==
    /\ hubUp /\ queue > 0
    /\ queue' = queue - 1
    /\ UNCHANGED <<main, timedOut, server, sessions, hubUp, joined, peers>>

\* addPeer at the end of the opening of a connection, then Run.  Nobody looks
\* whether the manager has stopped meanwhile.
AddPeer(r) ==
    /\ recv[r] = "opening"
    /\ recv' = [recv EXCEPT ![r] = "reading"]
    /\ UNCHANGED <<main, timedOut, server, sessions, hub, shut>>

Receive(r) ==
    /\ recv[r] = "reading" /\ r \notin shut
    /\ recv' = [recv EXCEPT ![r] = "delivering"]
    /\ UNCHANGED <<main, timedOut, server, sessions, hub, shut>>

\* The chat handler waits for room in the hub's queue.
DeliverRemote(r) ==
    /\ recv[r] = "delivering" /\ queue < QueueCap
    /\ queue' = queue + 1
    /\ recv' = [recv EXCEPT ![r] = "reading"]
    /\ UNCHANGED <<main, timedOut, server, sessions, hubUp, joined, shut>>

\* Manager.Stop has closed the connection.
ReceiverEnds(r) ==
    /\ recv[r] = "reading" /\ r \in shut
    /\ recv' = [recv EXCEPT ![r] = "done"]
    /\ UNCHANGED <<main, timedOut, server, sessions, hub, shut>>

-----------------------------------------------------------------------------
(* main.                                                                    *)

\* A signal arrives, and main cancels the context.
Cancel ==
    /\ main = "run" /\ main' = "cancelled"
    /\ UNCHANGED <<timedOut, server, sessions, hub, peers>>

\* Fault: the hub is stopped together with the transport.
StopTransportAndHub ==
    /\ main = "cancelled" /\ main' = "transport"
    /\ shut' = {r \in Receivers : recv[r] # "opening"}
    /\ hubUp' = FALSE
    /\ UNCHANGED <<timedOut, server, sessions, joined, queue, recv>>

\* Manager.Stop closes the connections of the map and waits for nobody.
StopTransport ==
    /\ main = "cancelled" /\ main' = "transport"
    /\ shut' = {r \in Receivers : recv[r] # "opening"}
    /\ UNCHANGED <<timedOut, server, sessions, hub, recv>>

\* Server.Stop under s.mu: no more connections, and those there are are closed.
StopServer ==
    /\ main = "transport" /\ main' = "stopping"
    /\ stopping' = TRUE
    /\ listener' = (IF listener = "open" THEN "closed" ELSE listener)
    /\ sock' = [c \in Clients |-> IF c \in conns THEN "closed"
                                  ELSE IF listener = "open" THEN Unaccepted(sock)[c] ELSE sock[c]]
    /\ UNCHANGED <<timedOut, serve, pending, conns, handler, sessions, hub, peers>>

\* wg.Wait: the goroutines of registered connections are done.
Drain ==
    /\ main = "stopping" /\ main' = "drained"
    /\ \A c \in Clients : handler[c] \in {"none", "done"}
    /\ UNCHANGED <<timedOut, server, sessions, hub, peers>>

DrainTimeout ==
    /\ main = "stopping" /\ main' = "drained"
    /\ timedOut' = TRUE
    /\ UNCHANGED <<server, sessions, hub, peers>>

\* hub.Stop, and the process ends.
StopHub ==
    /\ main = "drained" /\ main' = "exited"
    /\ hubUp' = FALSE
    /\ UNCHANGED <<timedOut, server, sessions, joined, queue, peers>>

MainStep == StopTransport \/ StopServer \/ Drain \/ StopHub

ServeStep == Listen \/ AcceptFails \/ Register \/ \E c \in Clients : Accept(c)

ConnectionStep(c) ==
    \/ Authenticate(c) \/ HandshakeFails(c) \/ OpenSession(c) \/ ChannelsEnd(c)
    \/ SessionsDone(c) \/ RemoveConn(c) \/ CloseConn(c)

SessionStep(c) ==
    \/ Shell(c) \/ RequestsEnd(c) \/ Join(c) \/ Type(c) \/ Broadcast(c) \/ StopReading(c)
    \/ Leave(c) \/ PrinterEnds(c) \/ Drained(c) \/ SessionEnds(c)

\* Nothing happens after the process has ended.
DownNext ==
    /\ main # "exited"
    /\ \/ Cancel \/ MainStep \/ DrainTimeout \/ ServeStep \/ CloseListener \/ HubTakes
       \/ \E c \in Clients :
            Connect(c) \/ Disconnect(c) \/ ConnectionStep(c) \/ SessionStep(c)
       \/ \E r \in Receivers : AddPeer(r) \/ Receive(r) \/ DeliverRemote(r) \/ ReceiverEnds(r)

DownSpec == DownInit /\ [][DownNext]_downVars

\* What goroutines do of themselves.  Clients need not authenticate, type, quit,
\* read or answer; but once its connection is closed nothing waits for a client.
\* The timeout of Stop is not relied on.
Certain(c) ==
    \/ ChannelsEnd(c) \/ SessionsDone(c) \/ RemoveConn(c) \/ CloseConn(c)
    \/ RequestsEnd(c) \/ Join(c) \/ Leave(c) \/ Drained(c)
    \/ sock[c] = "closed" /\ (HandshakeFails(c) \/ StopReading(c) \/ SessionEnds(c))

Alive(A) == main # "exited" /\ A

FairDownSpec ==
    /\ DownSpec
    /\ WF_downVars(Alive(MainStep)) /\ WF_downVars(Alive(ServeStep)) /\ WF_downVars(Alive(CloseListener))
    /\ WF_downVars(Alive(HubTakes))
    /\ \A c \in Clients :
         /\ WF_downVars(Alive(Certain(c)))
         /\ WF_downVars(Alive(sock[c] = "closed" /\ PrinterEnds(c)))
         /\ SF_downVars(Alive(Broadcast(c)))
    /\ \A r \in Receivers :
         SF_downVars(Alive(DeliverRemote(r))) /\ WF_downVars(Alive(ReceiverEnds(r)))

-----------------------------------------------------------------------------
(* Properties.                                                              *)

\* If Stop returns without a timeout, no goroutine of the SSH server is left: the
\* hub has seen every session leave before it is stopped.
DrainComplete ==
    (main = "drained" /\ ~timedOut) =>
        /\ joined = {}
        /\ \A c \in Clients : term[c] \in {"none", "done"} /\ printer[c] # "on"

\* The node goes down by itself, without the timeout of Stop, whatever clients do,
\* however full the hub's queue is, and although peers that were still opening
\* their connection when Manager.Stop ran stay connected and go on sending.  In
\* particular no connection that was just being accepted slips past Stop and
\* stays open with a goroutine that wg.Wait counts.
ShutdownCompletes == main = "cancelled" ~> main = "exited"

\* Every call into the hub returns until the very end, also those made while the
\* node is going down: the hub is the last to be stopped (DeliverRemote, Join,
\* Broadcast, Leave).
HubCallsReturn ==
    /\ \A c \in Clients : term[c] \in {"joining", "posting", "leaving"}
         ~> (term[c] \notin {"joining", "posting", "leaving"} \/ main = "exited")
    /\ \A r \in Receivers : recv[r] = "delivering" ~> (recv[r] # "delivering" \/ main = "exited")
=============================================================================
