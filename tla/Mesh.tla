-------------------------------- MODULE Mesh --------------------------------
(***************************************************************************)
(* Many nodes: the gossip engines of internal/gossip joined by the         *)
(* connections of internal/transport.  Module Gossip looks inside one      *)
(* engine, lock by lock, and shows that one call of HandleIncoming accepts *)
(* an id or refuses it as a whole; here such a call is one step, and what  *)
(* is of interest is where copies of a message get to.                     *)
(*                                                                         *)
(* A connection is a bounded queue in each direction, for the send buffer  *)
(* and what is under way.  Copies are lost when the queue is full, when    *)
(* the connection breaks and when the rate limiter of a receiver refuses   *)
(* them; nothing is sent again.  All nodes follow the protocol, so         *)
(* signatures always verify and keys are learned from the envelope.        *)
(***************************************************************************)
EXTENDS Integers, Sequences, FiniteSets

CONSTANTS
    Nodes,      \* the nodes
    Links,      \* who may be connected to whom: pairs, in both directions
    Msgs,       \* chat messages
    Author,     \* the node at which each is written
    Within,     \* Within[a][k]: the nodes that k hops from a may reach
    MaxHops,    \* e.maxHops
    Fanout,     \* e.fanout
    QueueCap,   \* capacity of a connection
    Throttles,  \* whether rate limiters refuse messages
    Expires,    \* whether ids expire from the seen caches
    MaxBreaks   \* bound: how often connections break

\* Within may be any family of sets that grows with the number of hops at least
\* as fast as neighbourhoods do; the least one is the distance in the graph.
ASSUME MeshAssumption ==
    /\ Links \subseteq Nodes \X Nodes
    /\ \A n, p \in Nodes : <<n, p>> \in Links => <<p, n>> \in Links
    /\ Author \in [Msgs -> Nodes]
    /\ MaxHops \in Nat \ {0} /\ Fanout \in Nat /\ QueueCap \in Nat \ {0}
    /\ Throttles \in BOOLEAN /\ Expires \in BOOLEAN /\ MaxBreaks \in Nat
    /\ Within \in [Nodes -> [0 .. MaxHops -> SUBSET Nodes]]
    /\ \A a \in Nodes : a \in Within[a][0]
    /\ \A a \in Nodes : \A j, k \in 0 .. MaxHops : j <= k => Within[a][j] \subseteq Within[a][k]
    /\ \A a \in Nodes : \A k \in 0 .. MaxHops - 1 : \A l \in Links :
         l[1] \in Within[a][k] => l[2] \in Within[a][k + 1]

VARIABLES
    up,      \* the links that are connected
    wire,    \* the copies on their way along each link
    seen,    \* SeenCache of each node
    shown,   \* how often each node's hub got a message since its id last expired there
    breaks,  \* how many connections have been broken
    written, \* messages that have been broadcast
    \* history
    reached, \* messages that have ever been shown at each node
    lost     \* messages of which some copy was lost or not sent

vars == <<up, wire, seen, shown, breaks, written, reached, lost>>

\* An envelope: the id stands for the message, its sender and its signature.
Copy == [msg: Msgs, hops: 0 .. MaxHops]

Reverse(l) == <<l[2], l[1]>>
PeersOf(n) == {p \in Nodes : <<n, p>> \in up}

\* One connected component to start with; every link of the topology is there.
Init ==
    /\ up = Links
    /\ wire = [l \in Links |-> << >>]
    /\ seen = [n \in Nodes |-> {}]
    /\ shown = [n \in Nodes |-> [m \in Msgs |-> 0]]
    /\ breaks = 0
    /\ written = {} /\ lost = {}
    /\ reached = [n \in Nodes |-> {}]

-----------------------------------------------------------------------------
\* Fault: the copy is queued although the queue is full.
SentUnbounded(w, n, S, c) ==
    [l \in Links |-> IF l[1] = n /\ l[2] \in S THEN Append(w[l], c) ELSE w[l]]

\* SendRaw to every node of S, on the wires w; a full queue loses the copy.
Sent(w, n, S, c) ==
    [l \in Links |-> IF l[1] = n /\ l[2] \in S /\ Len(w[l]) < QueueCap
                     THEN Append(w[l], c) ELSE w[l]]

\* Whether, of a copy that n has from p, one neighbour does not get its own: it is
\* not connected, not in S, or its queue is full.
Misses(w, n, p, S) ==
    \E l \in Links : l[1] = n /\ l[2] # p /\ (l[2] \notin S \/ Len(w[l]) >= QueueCap)

\* The messages of which a copy is under way along the link l.
Carried(l) == {wire[l][i].msg : i \in 1 .. Len(wire[l])}

\* fanoutLoop and Broadcast: the originator sends to all its peers.
Broadcast(m) ==
    /\ m \notin written
    /\ written' = written \cup {m}
    /\ seen' = [seen EXCEPT ![Author[m]] = seen[Author[m]] \cup {m}]
    /\ wire' = Sent(wire, Author[m], PeersOf(Author[m]), [msg |-> m, hops |-> MaxHops])
    /\ lost' = IF Misses(wire, Author[m], Author[m], PeersOf(Author[m])) THEN lost \cup {m} ELSE lost
    /\ UNCHANGED <<up, shown, breaks, reached>>

\* forwardTo's choice among the peers of n other than p.
Chosen(n, p, S) ==
    LET C == PeersOf(n) \ {p}
    IN /\ S \subseteq C
       /\ IF Cardinality(C) > Fanout THEN Cardinality(S) = Fanout ELSE S = C

\* What is left on the wires once n has read the first copy on the link l.
Read(l) == [wire EXCEPT ![l] = Tail(wire[l])]

\* n, which has read c on the link l, forwards it with h hops to S.
Forward(l, S, c, h) ==
    /\ Chosen(l[2], l[1], S)
    /\ wire' = Sent(Read(l), l[2], S, [msg |-> c.msg, hops |-> h])
    /\ lost' = IF Misses(Read(l), l[2], l[1], S) THEN lost \cup {c.msg} ELSE lost

\* Fault: the id is marked, but not looked up.
AcceptAgain(l, S) ==
    LET n == l[2]
        c == Head(wire[l])
    IN /\ wire[l] # << >>
       /\ seen' = [seen EXCEPT ![n] = seen[n] \cup {c.msg}]
       /\ shown' = [shown EXCEPT ![n][c.msg] = @ + 1]
       /\ reached' = [reached EXCEPT ![n] = reached[n] \cup {c.msg}]
       /\ IF c.hops <= 1
          THEN S = {} /\ wire' = Read(l) /\ UNCHANGED lost
          ELSE Forward(l, S, c, c.hops - 1)
       /\ UNCHANGED <<up, breaks, written>>

\* Fault: the copy is relayed with the hop count it came with.
AcceptUndiminished(l, S) ==
    LET n == l[2]
        c == Head(wire[l])
    IN /\ wire[l] # << >> /\ c.msg \notin seen[n]
       /\ seen' = [seen EXCEPT ![n] = seen[n] \cup {c.msg}]
       /\ shown' = [shown EXCEPT ![n][c.msg] = @ + 1]
       /\ reached' = [reached EXCEPT ![n] = reached[n] \cup {c.msg}]
       /\ IF c.hops <= 1
          THEN S = {} /\ wire' = Read(l) /\ UNCHANGED lost
          ELSE Forward(l, S, c, c.hops)
       /\ UNCHANGED <<up, breaks, written>>

\* Fault: the copy is relayed only if two hops are left after this one.
AcceptShort(l, S) ==
    LET n == l[2]
        c == Head(wire[l])
    IN /\ wire[l] # << >> /\ c.msg \notin seen[n]
       /\ seen' = [seen EXCEPT ![n] = seen[n] \cup {c.msg}]
       /\ shown' = [shown EXCEPT ![n][c.msg] = @ + 1]
       /\ reached' = [reached EXCEPT ![n] = reached[n] \cup {c.msg}]
       /\ IF c.hops <= 2
          THEN S = {} /\ wire' = Read(l) /\ UNCHANGED lost
          ELSE Forward(l, S, c, c.hops - 1)
       /\ UNCHANGED <<up, breaks, written>>

\* HandleIncoming of a copy whose id is new: mark, show, and forward with one
\* hop less to S unless the hops are used up.
Accept(l, S) ==
    LET n == l[2]
        c == Head(wire[l])
    IN /\ wire[l] # << >> /\ c.msg \notin seen[n]
       /\ seen' = [seen EXCEPT ![n] = seen[n] \cup {c.msg}]
       /\ shown' = [shown EXCEPT ![n][c.msg] = @ + 1]
       /\ reached' = [reached EXCEPT ![n] = reached[n] \cup {c.msg}]
       /\ IF c.hops <= 1
          THEN S = {} /\ wire' = Read(l) /\ UNCHANGED lost
          ELSE Forward(l, S, c, c.hops - 1)
       /\ UNCHANGED <<up, breaks, written>>

\* HandleIncoming of a copy whose id is known, or that the limiter refuses: the
\* node keeps no trace of it.
Refuse(l) ==
    /\ wire[l] # << >>
    /\ Throttles \/ Head(wire[l]).msg \in seen[l[2]]
    /\ wire' = Read(l)
    /\ lost' = IF Head(wire[l]).msg \in seen[l[2]] THEN lost ELSE lost \cup {Head(wire[l]).msg}
    /\ UNCHANGED <<up, seen, shown, breaks, written, reached>>

\* SeenCache.cleanup drops an id that is old enough.
Expire(n, m) ==
    /\ Expires /\ m \in seen[n]
    /\ seen' = [seen EXCEPT ![n] = seen[n] \ {m}]
    /\ shown' = [shown EXCEPT ![n][m] = 0]
    /\ UNCHANGED <<up, wire, breaks, written, reached, lost>>

\* A connection ends, at both nodes, and what was on it is lost.
Break(l) ==
    /\ l \in up /\ breaks < MaxBreaks /\ breaks' = breaks + 1
    /\ up' = up \ {l, Reverse(l)}
    /\ wire' = [k \in Links |-> IF k \in {l, Reverse(l)} THEN << >> ELSE wire[k]]
    /\ lost' = lost \cup Carried(l) \cup Carried(Reverse(l))
    /\ UNCHANGED <<seen, shown, written, reached>>

\* The two nodes connect again.
Reconnect(l) ==
    /\ l \notin up
    /\ up' = up \cup {l, Reverse(l)}
    /\ UNCHANGED <<wire, seen, shown, breaks, written, reached, lost>>

HandleIncoming(l) == Refuse(l) \/ \E S \in SUBSET PeersOf(l[2]) : Accept(l, S)

Next ==
    \/ \E m \in Msgs : Broadcast(m)
    \/ \E l \in Links : HandleIncoming(l) \/ Break(l) \/ Reconnect(l)
    \/ \E n \in Nodes, m \in Msgs : Expire(n, m)

Spec == Init /\ [][Next]_vars

\* A receive loop goes on as long as there is something to read.
FairSpec == Spec /\ \A l \in Links : WF_vars(HandleIncoming(l))

-----------------------------------------------------------------------------
(* Properties.                                                              *)

\* The type of every variable; only a link that is up carries copies.
TypeOK ==
    /\ up \subseteq Links
    /\ wire \in [Links -> Seq(Copy)]
    /\ \A l \in Links : Len(wire[l]) <= QueueCap /\ (wire[l] # << >> => l \in up)
    /\ seen \in [Nodes -> SUBSET Msgs] /\ reached \in [Nodes -> SUBSET Msgs]
    /\ shown \in [Nodes -> [Msgs -> Nat]]
    /\ breaks \in 0 .. MaxBreaks
    /\ written \subseteq Msgs /\ lost \subseteq Msgs

D == INSTANCE Dissemination WITH memory <- seen

\* The mesh keeps its promise to the users: nothing appears that nobody wrote,
\* and nothing twice while the node remembers it, along whatever paths copies
\* travel, get lost and come back (HandleIncoming, Broadcast).  Every showing is
\* counted, so a second one is a step that Dissemination does not have.
ImplementsDissemination == D!Spec

\* The hop count bounds how far a message travels, however often seen caches
\* forget it: a copy with h hops left is still within MaxHops - h hops of its
\* author when it is sent, and nobody further than MaxHops away ever sees it
\* (HandleIncoming step 7, "hop count enforcement").
Horizon ==
    /\ \A l \in Links : \A i \in 1 .. Len(wire[l]) :
         /\ wire[l][i].hops >= 1
         /\ l[1] \in Within[Author[wire[l][i].msg]][MaxHops - wire[l][i].hops]
    /\ \A n \in Nodes : \A m \in reached[n] : n \in Within[Author[m]][MaxHops]

\* Copies do not circle for ever, even if ids expire while they are under way:
\* the traffic a message causes comes to an end.
TrafficEnds == <>[](\A l \in Links : wire[l] = << >>)

\* Only a lost copy keeps a message from a node: a message of which every copy
\* got through is shown everywhere, although the first copy a node gets, which is
\* the only one it forwards, may be one with few hops left, and whatever is lost
\* of other messages.  (MaxHops is no less than the longest way.)
EveryoneShown ==
    \A m \in Msgs : \A n \in Nodes \ {Author[m]} :
        m \in written ~> (m \in reached[n] \/ m \in lost)
=============================================================================
