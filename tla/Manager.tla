------------------------------ MODULE Manager ------------------------------
(***************************************************************************)
(* The connection lifecycle of the transport (internal/transport): the     *)
(* managers of a network of nodes, the goroutines that dial and accept,    *)
(* the Noise handshake, the hello exchange, the peer map and shutdown.     *)
(*                                                                         *)
(* A connection has two ends.  Each end is driven by one goroutine         *)
(* (handleInbound, or dial under dialWithBackoff or dialDiscovered) and    *)
(* passes through the stages of that function; one action is what the      *)
(* goroutine does between two points where it waits for the wire or for    *)
(* the manager's lock.  An end that returned an error or was removed is    *)
(* "gone"; the slot of a connection is used again once both ends are.      *)
(*                                                                         *)
(* Deadlines are not counted: a deadline that fires while the other end    *)
(* is alive is a fault of the network, as a reset is, and MaxFaults bounds *)
(* how many there are.  There is none in the Noise handshake.              *)
(***************************************************************************)
EXTENDS Integers, FiniteSets

CONSTANTS
    Nodes,      \* the nodes; one has one identifier, key and address
    Conns,      \* slots for connections (bounds how many exist at a time)
    Bootstrap,  \* <<n, m>>: the address of m is in n's bootstrap list
    Records,    \* <<m, t>>: discovery knows m under the address of t
    Liars,      \* nodes that may send any hello
    Stoppable,  \* nodes that may be shut down
    MaxPeers,   \* network.max_peers; 0 is no limit
    MaxBackoff, \* the longest retry delay, in seconds
    MaxDials,   \* maxDialsPerTick
    MaxFaults,  \* bound: failures of the network
    None        \* no connection, or no identifier yet

ASSUME ManagerAssumption ==
    /\ Bootstrap \subseteq Nodes \X Nodes /\ Records \subseteq Nodes \X Nodes
    /\ MaxPeers \in Nat /\ MaxBackoff \in Nat \ {0} /\ MaxDials \in Nat
    /\ MaxFaults \in Nat /\ IsFiniteSet(Nodes) /\ Nodes # {}
    /\ Stoppable \subseteq Nodes /\ None \notin Nodes /\ None \notin Conns \X {"out", "in"}

Ends == Conns \X {"out", "in"}

\* The goroutines that dial: one per bootstrap address, and one for a
\* discovered peer while dialing[peer] is set.
Dialers == {[kind |-> "boot", node |-> b[1], peer |-> b[2]] : b \in Bootstrap}
             \cup [kind: {"disc"}, node: Nodes, peer: Nodes]

VARIABLES
    stopped,  \* the nodes whose done channel is closed
    peers,    \* Manager.peers: peers[n][m] is the connection of n to m
    dpc,      \* where a dialing goroutine is
    via,      \* whose address it dials
    delay,    \* backoff of dialWithBackoff
    by,       \* the goroutine that dialed a connection
    to,       \* the node that accepted it
    stage,    \* how far each end is
    told,     \* ends that have sent their PeerHello or PeerHelloAck
    peerID,   \* Peer.NodeID, set by verifyPeerIdentity
    closed,   \* ends on which Peer.Close was called
    lost,     \* connections the network has dropped
    faults,   \* how many faults there were
    refused   \* history: dialers whose connection was refused by addPeer at
              \* the other end and that have not waited since

vars == <<stopped, peers, dpc, via, delay, by, to, stage, told, peerID, closed,
          lost, faults, refused>>

Other(e) == <<e[1], IF e[2] = "out" THEN "in" ELSE "out">>
\* The node an end belongs to.
Owner(e) == IF e[2] = "out" THEN by[e[1]].node ELSE to[e[1]]

Free(k) == stage[<<k, "out">>] = "gone" /\ stage[<<k, "in">>] = "gone"
Connected(n) == {m \in Nodes : peers[n][m] # None}
AtCapacity(n) == MaxPeers > 0 /\ Cardinality(Connected(n)) >= MaxPeers

\* Reads on this end fail: the other end has closed, or the network has.
Broken(e) == e[1] \in lost \/ stage[Other(e)] = "gone"

Init ==
    /\ stopped = {}
    /\ peers = [n \in Nodes |-> [m \in Nodes |-> None]]
    /\ dpc = [g \in Dialers |-> IF g.kind = "boot" THEN "ready" ELSE "off"]
    /\ via = [g \in Dialers |-> g.peer]
    /\ delay = [g \in Dialers |-> 1]
    /\ by = [k \in Conns |-> CHOOSE g \in Dialers : TRUE]
    /\ to = [k \in Conns |-> CHOOSE n \in Nodes : TRUE]
    /\ stage = [e \in Ends |-> "gone"]
    /\ told = {}
    /\ peerID = [e \in Ends |-> None]
    /\ closed = {}
    /\ lost = {}
    /\ faults = 0
    /\ refused = {}

-----------------------------------------------------------------------------
(* Dialing goroutines.                                                      *)

Goto(g, step) == dpc' = [dpc EXCEPT ![g] = step]

\* dial returns to its caller.  dialWithBackoff waits after an error and
\* resets its backoff otherwise; dialDiscovered ends.
Return(g, ok) ==
    IF g.kind = "disc" THEN Goto(g, "off") /\ UNCHANGED delay
    ELSE IF ok THEN Goto(g, "ready") /\ delay' = [delay EXCEPT ![g] = 1]
    ELSE Goto(g, "wait") /\ UNCHANGED delay

\* The head of dialWithBackoff's loop.
Check(g) ==
    /\ dpc[g] = "ready"
    /\ Goto(g, IF g.node \in stopped THEN "ended" ELSE "dial")
    /\ UNCHANGED <<stopped, peers, via, delay, by, to, stage, told, peerID, closed,
                   lost, faults, refused>>

\* Fault: the delay is doubled without a limit.
RetryUncapped(g) ==
    /\ dpc[g] = "wait" /\ Goto(g, "ready")
    /\ delay' = [delay EXCEPT ![g] = 2 * @]
    /\ refused' = refused \ {g}
    /\ UNCHANGED <<stopped, peers, via, by, to, stage, told, peerID, closed, lost, faults>>

\* The backoff timer fires, or done is closed first.
Retry(g) ==
    /\ dpc[g] = "wait"
    /\ \/ /\ g.node \in stopped /\ Goto(g, "ended")
          /\ UNCHANGED delay
       \/ /\ Goto(g, "ready")
          /\ delay' = [delay EXCEPT ![g] = IF 2 * @ < MaxBackoff THEN 2 * @ ELSE MaxBackoff]
    /\ refused' = refused \ {g}
    /\ UNCHANGED <<stopped, peers, via, by, to, stage, told, peerID, closed, lost, faults>>

\* tryDiscoveryDials: up to MaxDials peers that are neither connected nor being
\* dialed and whose address is no bootstrap address.  What the table holds, and
\* the backoff of its records, is left open.
Tick(n) ==
    /\ n \notin stopped /\ ~AtCapacity(n)
    /\ \E S \in SUBSET Records :
         /\ S # {} /\ Cardinality(S) <= MaxDials
         /\ \A r, s \in S : r[1] = s[1] => r = s
         /\ \A r \in S : /\ r[1] # n /\ r[1] \notin Connected(n)
                         /\ dpc[[kind |-> "disc", node |-> n, peer |-> r[1]]] = "off"
                         /\ <<n, r[2]>> \notin Bootstrap
         /\ dpc' = [g \in Dialers |->
                      IF g.kind = "disc" /\ g.node = n /\ \E r \in S : r[1] = g.peer
                      THEN "jitter" ELSE dpc[g]]
         /\ via' = [g \in Dialers |->
                      IF g.kind = "disc" /\ g.node = n /\ \E r \in S : r[1] = g.peer
                      THEN (CHOOSE r \in S : r[1] = g.peer)[2] ELSE via[g]]
    /\ UNCHANGED <<stopped, peers, delay, by, to, stage, told, peerID, closed, lost,
                   faults, refused>>

\* dialDiscovered: the jitter is over, or done is closed first.
Jitter(g) ==
    /\ dpc[g] = "jitter"
    /\ \/ g.node \in stopped /\ Goto(g, "off")
       \/ Goto(g, "dial")
    /\ UNCHANGED <<stopped, peers, via, delay, by, to, stage, told, peerID, closed,
                   lost, faults, refused>>

\* DialTimeout reaches the listener, which has yet to accept.
Connect(g, k) ==
    /\ dpc[g] = "dial" /\ Free(k) /\ via[g] \notin stopped
    /\ Goto(g, "conn")
    /\ by' = [by EXCEPT ![k] = g]
    /\ to' = [to EXCEPT ![k] = via[g]]
    /\ stage' = [stage EXCEPT ![<<k, "out">>] = "noise", ![<<k, "in">>] = "backlog"]
    /\ UNCHANGED <<stopped, peers, via, delay, told, peerID, closed, lost, faults, refused>>

\* DialTimeout returns an error.
ConnectFails(g) ==
    /\ dpc[g] = "dial"
    /\ \/ via[g] \in stopped /\ UNCHANGED faults
       \/ faults < MaxFaults /\ faults' = faults + 1
    /\ Return(g, FALSE)
    /\ UNCHANGED <<stopped, peers, via, by, to, stage, told, peerID, closed, lost, refused>>

-----------------------------------------------------------------------------
(* The two ends of a connection.                                            *)

Advance(e, step) == stage' = [stage EXCEPT ![e] = step]

\* The function that drives e closes the connection and returns; its Peer goes
\* with it, and the connection once the other end has done the same.
Leave(e, ok) ==
    /\ Advance(e, "gone")
    /\ peerID' = [peerID EXCEPT ![e] = None]
    /\ closed' = closed \ {e}
    /\ IF stage[Other(e)] = "gone"
       THEN told' = told \ {e, Other(e)} /\ lost' = lost \ {e[1]}
       ELSE UNCHANGED <<told, lost>>
    /\ IF e[2] = "out" THEN Return(by[e[1]], ok) ELSE UNCHANGED <<dpc, delay>>

\* listenLoop accepts; handleInbound looks at the capacity before it spends
\* time on the handshake.
HandleInbound(e) ==
    /\ stage[e] = "backlog"
    /\ IF AtCapacity(Owner(e))
       THEN Leave(e, FALSE)
       ELSE Advance(e, "noise") /\ UNCHANGED <<dpc, delay, told, peerID, closed, lost>>
    /\ UNCHANGED <<stopped, peers, via, by, to, faults, refused>>

\* Handshake: the initiator is through once the responder has answered, and sends
\* its hello right after the last message; the responder is through when it has
\* read that message, which may be waiting for it though the initiator is gone.
Handshake(e) ==
    /\ stage[e] = "noise"
    /\ IF e[2] = "out"
       THEN stage[Other(e)] = "noise" /\ told' = told \cup {e}
       ELSE Other(e) \in told /\ UNCHANGED told
    /\ Advance(e, "hello")
    /\ UNCHANGED <<stopped, peers, dpc, via, delay, by, to, peerID, closed,
                   lost, faults, refused>>

\* A hello: the identifier and key it claims and the key that signed it.  A
\* node that follows the protocol claims itself; one that does not may claim
\* what it likes, and may pass on a hello that somebody else signed.
Hello(n, key, signer) == [nodeId |-> n, pubkey |-> key, signer |-> signer]
Hellos(n) ==
    IF n \in Liars
    THEN {Hello(m, key, n) : m, key \in Nodes} \cup {Hello(m, m, m) : m \in Nodes}
    ELSE {Hello(n, n, n)}

\* Fault: the key of the hello is not compared with the key of the handshake.
VerifiedUnbound(h, x25519) == h.signer = h.pubkey /\ h.nodeId = h.pubkey

\* recvHello and verifyPeerIdentity: the signature is by the key in the hello,
\* the identifier is the hash of that key, and the key is the one the Noise
\* handshake authenticated.  Node identifiers stand for the keys they hash.
Verified(h, x25519) == h.signer = h.pubkey /\ h.nodeId = h.pubkey /\ h.pubkey = x25519

\* ExchangeHello: the responder reads the hello, verifies it and acknowledges
\* it; the initiator reads the acknowledgement and verifies that.
ExchangeHello(e) ==
    /\ stage[e] = "hello"
    /\ Other(e) \in told
    /\ \E h \in Hellos(Owner(Other(e))) :
         IF Verified(h, Owner(Other(e)))
         THEN /\ Advance(e, "add")
              /\ peerID' = [peerID EXCEPT ![e] = h.nodeId]
              /\ told' = told \cup {e}
              /\ UNCHANGED <<dpc, delay, closed, lost>>
         ELSE Leave(e, FALSE)
    /\ UNCHANGED <<stopped, peers, via, by, to, faults, refused>>

\* A read or write of the handshake or of the hello exchange fails.  The hello
\* exchange has a deadline; the handshake has none and, if nothing tells this end
\* that the connection is lost, it need not fail (see Hung).
Fail(e) ==
    /\ stage[e] \in {"noise", "hello"} /\ Broken(e)
    /\ Leave(e, FALSE)
    /\ UNCHANGED <<stopped, peers, via, by, to, faults, refused>>

Register(e) ==
    /\ peers' = [peers EXCEPT ![Owner(e)][peerID[e]] = e]
    /\ Advance(e, "up")
    /\ UNCHANGED <<dpc, delay, told, peerID, closed, lost, refused>>

\* The connection is closed; what the other end has been told stays told.
Reject(e) ==
    /\ Leave(e, FALSE)
    /\ refused' = IF e[2] = "in" /\ stage[Other(e)] # "gone"
                  THEN refused \cup {by[e[1]]} ELSE refused
    /\ UNCHANGED peers

\* Fault: a second connection to the same node replaces the first in the map.
AddPeerReplaces(e) ==
    /\ stage[e] = "add"
    /\ IF peers[Owner(e)][peerID[e]] = None /\ AtCapacity(Owner(e)) THEN Reject(e) ELSE Register(e)
    /\ UNCHANGED <<stopped, via, by, to, faults>>

\* Fault: the capacity is left to the check before the handshake.
AddPeerUnlimited(e) ==
    /\ stage[e] = "add"
    /\ IF peers[Owner(e)][peerID[e]] # None THEN Reject(e) ELSE Register(e)
    /\ UNCHANGED <<stopped, via, by, to, faults>>

\* addPeer, and what handleInbound and dial do with its answer.
AddPeer(e) ==
    /\ stage[e] = "add"
    /\ IF peers[Owner(e)][peerID[e]] # None \/ AtCapacity(Owner(e))
       THEN Reject(e) ELSE Register(e)
    /\ UNCHANGED <<stopped, via, by, to, faults>>

\* onPeerConnected, up to the point where Run starts the two loops.
OnPeerConnected(e) ==
    /\ stage[e] = "up"
    /\ Advance(e, "run")
    /\ UNCHANGED <<stopped, peers, dpc, via, delay, by, to, told, peerID, closed,
                   lost, faults, refused>>

\* Fault: Run waits for the second loop without closing the peer.
LoopEndsQuietly(e) ==
    /\ stage[e] = "run" /\ (Broken(e) \/ e \in closed)
    /\ Advance(e, "closing")
    /\ UNCHANGED <<stopped, peers, dpc, via, delay, by, to, told, peerID, closed,
                   lost, faults, refused>>

\* Run: the first loop to fail makes it close the peer, so that the other ends.
LoopEnds(e) ==
    /\ stage[e] = "run" /\ (Broken(e) \/ e \in closed)
    /\ Advance(e, "closing")
    /\ closed' = closed \cup {e}
    /\ UNCHANGED <<stopped, peers, dpc, via, delay, by, to, told, peerID,
                   lost, faults, refused>>

\* Fault: the entry stays in the map.
RemovePeerForgets(e) ==
    /\ stage[e] = "closing" /\ e \in closed
    /\ Leave(e, TRUE)
    /\ UNCHANGED <<stopped, peers, via, by, to, faults, refused>>

\* Both loops have ended; removePeer deletes the entry of that node, and dial
\* returns without an error.
RemovePeer(e) ==
    /\ stage[e] = "closing" /\ e \in closed
    /\ peers' = [peers EXCEPT ![Owner(e)][peerID[e]] = None]
    /\ Leave(e, TRUE)
    /\ UNCHANGED <<stopped, via, by, to, faults, refused>>

-----------------------------------------------------------------------------
\* Stop closes done, the listener (and what it has not accepted yet) and every
\* peer in the map.
Stop(n) ==
    /\ n \in Stoppable \ stopped
    /\ stopped' = stopped \cup {n}
    /\ closed' = closed \cup {e \in Ends : \E m \in Nodes : peers[n][m] = e}
    /\ stage' = [e \in Ends |-> IF stage[e] = "backlog" /\ Owner(e) = n THEN "gone" ELSE stage[e]]
    /\ lost' = {k \in lost : ~Free(k)'}
    /\ UNCHANGED <<peers, dpc, via, delay, by, to, told, peerID, faults, refused>>

\* A reset, a partition that outlasts the deadlines, or a deadline that fires.
Fault(k) ==
    /\ ~Free(k) /\ k \notin lost /\ faults < MaxFaults
    /\ lost' = lost \cup {k} /\ faults' = faults + 1
    /\ UNCHANGED <<stopped, peers, dpc, via, delay, by, to, stage, told, peerID,
                   closed, refused>>

Dial(g) == Check(g) \/ Retry(g) \/ Jitter(g) \/ (\E k \in Conns : Connect(g, k)) \/ ConnectFails(g)

Drive(e) == \/ HandleInbound(e) \/ Handshake(e) \/ ExchangeHello(e) \/ Fail(e)
            \/ AddPeer(e) \/ OnPeerConnected(e) \/ LoopEnds(e) \/ RemovePeer(e)

Next == \/ \E g \in Dialers : Dial(g)
        \/ \E e \in Ends : Drive(e)
        \/ \E n \in Nodes : Tick(n) \/ Stop(n)
        \/ \E k \in Conns : Fault(k)

Spec == Init /\ [][Next]_vars

\* An end that waits in the Noise handshake for bytes the network has dropped:
\* Handshake reads from the bare connection, and the first deadline is the one
\* ExchangeHello sets, so that it may wait for ever.
Hung(e) == stage[e] = "noise" /\ e[1] \in lost

\* A goroutine that can go on does; one that waits for its connection goes on
\* when data arrive, when the other end closes or, after the handshake, when a
\* deadline fires.  A dial succeeds unless the network fails.  Nobody has to stop
\* and the network need not fail.
Fairness ==
    /\ \A g \in Dialers : WF_vars(Check(g)) /\ WF_vars(Retry(g)) /\ WF_vars(Jitter(g))
                          /\ WF_vars(\E k \in Conns : Connect(g, k))
    /\ \A e \in Ends : WF_vars(~Hung(e) /\ Drive(e))

FairSpec == Spec /\ Fairness

-----------------------------------------------------------------------------
(* Properties.                                                              *)

Registered == {"up", "run", "closing"}

\* The type of every variable.
TypeOK ==
    /\ stopped \subseteq Nodes
    /\ peers \in [Nodes -> [Nodes -> Ends \cup {None}]]
    /\ dpc \in [Dialers -> {"off", "ready", "jitter", "dial", "conn", "wait", "ended"}]
    /\ via \in [Dialers -> Nodes]
    /\ delay \in [Dialers -> 1 .. MaxBackoff]
    /\ by \in [Conns -> Dialers] /\ to \in [Conns -> Nodes]
    /\ stage \in [Ends -> {"gone", "backlog", "noise", "hello", "add"} \cup Registered]
    /\ told \subseteq Ends /\ lost \subseteq Conns
    /\ peerID \in [Ends -> Nodes \cup {None}]
    /\ closed \subseteq Ends
    /\ faults \in 0 .. MaxFaults
    /\ refused \subseteq Dialers

\* The peer map holds exactly the connections between addPeer and removePeer,
\* each under the identifier it was verified for: removePeer, which is given an
\* identifier and not a connection, never deletes the entry of another one.
MapMatchesConnections ==
    /\ \A n, m \in Nodes : peers[n][m] # None =>
         LET e == peers[n][m] IN Owner(e) = n /\ peerID[e] = m /\ stage[e] \in Registered
    /\ \A e \in Ends : stage[e] \in Registered => peers[Owner(e)][peerID[e]] = e

\* An entry for m is a connection whose other end holds the key of m, whatever
\* the nodes say in their hellos and whichever address was dialed.
PeersAuthenticated ==
    \A n, m \in Nodes : peers[n][m] # None => Owner(Other(peers[n][m])) = m

\* max_peers bounds the map although any number of handshakes may be under way
\* when the early check is made (handleInbound: "The definitive check is in
\* addPeer").
WithinCapacity ==
    MaxPeers > 0 => \A n \in Nodes : Cardinality(Connected(n)) <= MaxPeers

\* A connection that only one end still has does not stay in that end's map:
\* the responder acknowledges before addPeer may refuse it, so a dialer can be
\* connected to nobody, but not for ever.
HalfOpenEnds ==
    \A e \in Ends : stage[e] \in Registered /\ stage[Other(e)] = "gone" ~> stage[e] = "gone"

Linked(n, m) == \E k \in Conns : peers[n][m] = <<k, "out">> /\ peers[m][n] = <<k, "in">>

\* A node ends up connected to its bootstrap peer, and both to the same
\* connection, after any number of failures at any stage: what an old connection
\* left behind at either node does not keep the new ones out, not even an
\* acceptor that hangs in the handshake.  The one failure the node does not get
\* over is its own dialing goroutine hanging there (dial, Handshake).
Reconnects ==
    \A b \in Bootstrap :
        <>[](\/ stopped # {} \/ Linked(b[1], b[2])
             \/ \E k \in Conns : /\ Hung(<<k, "out">>)
                                 /\ by[k] = [kind |-> "boot", node |-> b[1], peer |-> b[2]])

\* "Outbound connections to bootstrap peers use exponential backoff", "1st retry:
\* 1 second" (docs/protocol/connection.md): a bootstrap peer that refused a
\* connection is not dialed again without a wait.
RefusedDialsWait ==
    [][\A g \in Dialers : dpc[g] = "ready" /\ dpc'[g] = "dial" => g \notin refused]_vars
=============================================================================
