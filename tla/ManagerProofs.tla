--------------------------- MODULE ManagerProofs ---------------------------
(***************************************************************************)
(* Proofs about the peer map, for any number of nodes, connections and     *)
(* failures, any bootstrap lists and any limit on the number of peers.     *)
(***************************************************************************)
EXTENDS Manager, FiniteSetTheorems, TLAPS

\* From the moment the hello is verified, a connection is filed under the node
\* at its other end.
Bound == \A e \in Ends : stage[e] \in {"add"} \cup Registered => peerID[e] = Owner(Other(e))

IndInv == TypeOK /\ MapMatchesConnections /\ Bound /\ WithinCapacity

-----------------------------------------------------------------------------
\* An end is a connection and a side, and the other end is another one.
LEMMA EndFacts ==
    ASSUME NEW e \in Ends
    PROVE  /\ e[1] \in Conns /\ e = <<e[1], e[2]>> /\ e[2] \in {"out", "in"}
           /\ Other(e) \in Ends /\ Other(e)[1] = e[1] /\ Other(e) # e /\ Other(Other(e)) = e
BY DEF Ends, Other

\* The nodes a connection belongs to are nodes.
LEMMA OwnerFacts ==
    ASSUME TypeOK, NEW e \in Ends
    PROVE  Owner(e) \in Nodes /\ by[e[1]] \in Dialers
<1>1. e[1] \in Conns /\ by[e[1]] \in Dialers /\ to[e[1]] \in Nodes
  BY EndFacts DEF TypeOK
<1>2. \A g \in Dialers : g.node \in Nodes
  BY ManagerAssumption DEF Dialers
<1> QED BY <1>1, <1>2 DEF Owner

\* Where a dialing goroutine goes when dial returns.
LEMMA ReturnType ==
    ASSUME TypeOK, NEW g \in Dialers, NEW ok \in BOOLEAN, Return(g, ok)
    PROVE  /\ dpc' \in [Dialers -> {"off", "ready", "jitter", "dial", "conn", "wait", "ended"}]
           /\ delay' \in [Dialers -> 1 .. MaxBackoff]
<1>1. CASE g.kind = "disc"
  BY <1>1 DEF TypeOK, Return, Goto
<1>2. CASE g.kind # "disc" /\ ok
  <2>1. dpc' = [dpc EXCEPT ![g] = "ready"] /\ delay' = [delay EXCEPT ![g] = 1]
    BY <1>2 DEF Return, Goto
  <2> QED BY <2>1, ManagerAssumption DEF TypeOK
<1>3. CASE g.kind # "disc" /\ ~ok
  <2>1. dpc' = [dpc EXCEPT ![g] = "wait"] /\ delay' = delay
    BY <1>3 DEF Return, Goto
  <2> QED BY <2>1 DEF TypeOK
<1> QED BY <1>1, <1>2, <1>3

\* Leaving keeps the types.
LEMMA LeaveType ==
    ASSUME TypeOK, NEW e \in Ends, NEW ok \in BOOLEAN, Leave(e, ok)
    PROVE  /\ dpc' \in [Dialers -> {"off", "ready", "jitter", "dial", "conn", "wait", "ended"}]
           /\ delay' \in [Dialers -> 1 .. MaxBackoff]
           /\ stage' \in [Ends -> {"gone", "backlog", "noise", "hello", "add"} \cup Registered]
           /\ peerID' \in [Ends -> Nodes \cup {None}]
           /\ told' \subseteq Ends /\ lost' \subseteq Conns /\ closed' \subseteq Ends
<1>1. by[e[1]] \in Dialers
  BY OwnerFacts
<1>2. /\ dpc' \in [Dialers -> {"off", "ready", "jitter", "dial", "conn", "wait", "ended"}]
      /\ delay' \in [Dialers -> 1 .. MaxBackoff]
  BY <1>1, ReturnType DEF Leave, TypeOK
<1>3. /\ stage' \in [Ends -> {"gone", "backlog", "noise", "hello", "add"} \cup Registered]
      /\ peerID' \in [Ends -> Nodes \cup {None}]
  BY DEF Leave, Advance, TypeOK
<1>4. told' \subseteq Ends /\ lost' \subseteq Conns /\ closed' \subseteq Ends
  BY DEF Leave, TypeOK
<1> QED BY <1>2, <1>3, <1>4

\* The inductive invariant holds when no connection has been made.
LEMMA InitInd == Init => IndInv
<1> SUFFICES ASSUME Init PROVE IndInv
  OBVIOUS
<1>1. PICK n \in Nodes : TRUE
  BY ManagerAssumption
<1>2. (CHOOSE m \in Nodes : TRUE) \in Nodes
  BY <1>1
<1>3. [kind |-> "disc", node |-> n, peer |-> n] \in Dialers
  BY <1>1 DEF Dialers
<1>4. (CHOOSE g \in Dialers : TRUE) \in Dialers
  BY <1>3
<1>5. \A g \in Dialers : g.peer \in Nodes
  BY ManagerAssumption DEF Dialers
<1>6. TypeOK
  <2>1. by \in [Conns -> Dialers] /\ to \in [Conns -> Nodes]
    BY <1>2, <1>4 DEF Init
  <2>2. via \in [Dialers -> Nodes] /\ delay \in [Dialers -> 1 .. MaxBackoff]
    BY <1>5, ManagerAssumption DEF Init
  <2>3. dpc \in [Dialers -> {"off", "ready", "jitter", "dial", "conn", "wait", "ended"}]
    BY DEF Init
  <2>4. /\ peers \in [Nodes -> [Nodes -> Ends \cup {None}]]
        /\ stage \in [Ends -> {"gone", "backlog", "noise", "hello", "add"} \cup Registered]
        /\ peerID \in [Ends -> Nodes \cup {None}]
    BY DEF Init
  <2>5. /\ stopped \subseteq Nodes /\ told \subseteq Ends /\ lost \subseteq Conns
        /\ closed \subseteq Ends /\ refused \subseteq Dialers /\ faults \in 0 .. MaxFaults
    BY ManagerAssumption DEF Init
  <2> QED BY <2>1, <2>2, <2>3, <2>4, <2>5 DEF TypeOK
<1>7. MapMatchesConnections /\ Bound
  BY DEF Init, MapMatchesConnections, Bound, Registered
<1>8. WithinCapacity
  <2>1. \A m \in Nodes : Connected(m) = {}
    BY DEF Init, Connected
  <2> QED BY <2>1, FS_EmptySet, ManagerAssumption DEF WithinCapacity
<1> QED BY <1>6, <1>7, <1>8 DEF IndInv

-----------------------------------------------------------------------------
\* Every step keeps the types.
LEMMA TypeStep == TypeOK /\ [Next]_vars => TypeOK'
<1> SUFFICES ASSUME TypeOK, [Next]_vars PROVE TypeOK'
  OBVIOUS
<1>1. ASSUME NEW g \in Dialers, Check(g) \/ Jitter(g) PROVE TypeOK'
  BY <1>1 DEF Check, Jitter, Goto, TypeOK
<1>2. ASSUME NEW g \in Dialers, Retry(g) PROVE TypeOK'
  <2>1. dpc' \in [Dialers -> {"off", "ready", "jitter", "dial", "conn", "wait", "ended"}]
    BY <1>2 DEF Retry, Goto, TypeOK
  <2>2. delay' \in [Dialers -> 1 .. MaxBackoff]
    BY <1>2, ManagerAssumption, SMTT(40) DEF Retry, TypeOK
  <2> QED BY <1>2, <2>1, <2>2 DEF Retry, TypeOK
<1>3. ASSUME NEW g \in Dialers, NEW k \in Conns, Connect(g, k) PROVE TypeOK'
  <2>1. via[g] \in Nodes
    BY DEF TypeOK
  <2>2. by' \in [Conns -> Dialers] /\ to' \in [Conns -> Nodes]
    BY <1>3, <2>1 DEF Connect, TypeOK
  <2>3. stage' \in [Ends -> {"gone", "backlog", "noise", "hello", "add"} \cup Registered]
    BY <1>3 DEF Connect, TypeOK
  <2> QED BY <1>3, <2>2, <2>3 DEF Connect, Goto, TypeOK
<1>4. ASSUME NEW g \in Dialers, ConnectFails(g) PROVE TypeOK'
  <2>1. faults' \in 0 .. MaxFaults
    BY <1>4, ManagerAssumption DEF ConnectFails, TypeOK
  <2> QED BY <1>4, <2>1, ReturnType DEF ConnectFails, TypeOK
<1>5. ASSUME NEW e \in Ends, HandleInbound(e) PROVE TypeOK'
  <2>1. CASE Leave(e, FALSE)
    BY <1>5, <2>1, LeaveType DEF HandleInbound, TypeOK
  <2>2. CASE Advance(e, "noise") /\ UNCHANGED <<dpc, delay, told, peerID, closed, lost>>
    BY <1>5, <2>2 DEF HandleInbound, Advance, TypeOK
  <2> QED BY <1>5, <2>1, <2>2 DEF HandleInbound
<1>6. ASSUME NEW e \in Ends, Handshake(e) PROVE TypeOK'
  BY <1>6 DEF Handshake, Advance, TypeOK
<1>7. ASSUME NEW e \in Ends, ExchangeHello(e) PROVE TypeOK'
  <2>1. CASE Leave(e, FALSE)
    BY <1>7, <2>1, LeaveType DEF ExchangeHello, TypeOK
  <2>2. CASE ~Leave(e, FALSE)
    <3>1. PICK h \in Hellos(Owner(Other(e))) : Verified(h, Owner(Other(e)))
            /\ Advance(e, "add") /\ peerID' = [peerID EXCEPT ![e] = h.nodeId]
            /\ told' = told \cup {e}
            /\ UNCHANGED <<dpc, delay, closed, lost>>
      BY <1>7, <2>2 DEF ExchangeHello
    <3>2. h.nodeId = Owner(Other(e))
      BY <3>1 DEF Verified
    <3>3. h.nodeId \in Nodes /\ e[1] \in Conns
      BY <3>2, EndFacts, OwnerFacts
    <3>4. peerID' \in [Ends -> Nodes \cup {None}] /\ told' \subseteq Ends
      BY <3>1, <3>3 DEF TypeOK
    <3>5. stage' \in [Ends -> {"gone", "backlog", "noise", "hello", "add"} \cup Registered]
      BY <3>1 DEF Advance, TypeOK
    <3> QED BY <1>7, <3>1, <3>4, <3>5 DEF ExchangeHello, TypeOK
  <2> QED BY <2>1, <2>2
<1>8. ASSUME NEW e \in Ends, Fail(e) PROVE TypeOK'
  BY <1>8, LeaveType DEF Fail, TypeOK
<1>9. ASSUME NEW e \in Ends, AddPeer(e) PROVE TypeOK'
  <2>1. CASE Reject(e)
    <3>1. refused' \subseteq Dialers
      BY <2>1, OwnerFacts DEF Reject, TypeOK
    <3> QED BY <1>9, <2>1, <3>1, LeaveType DEF AddPeer, Reject, TypeOK
  <2>2. CASE Register(e)
    <3>1. peers' \in [Nodes -> [Nodes -> Ends \cup {None}]]
      BY <2>2 DEF Register, TypeOK
    <3>2. stage' \in [Ends -> {"gone", "backlog", "noise", "hello", "add"} \cup Registered]
      BY <2>2 DEF Register, Advance, TypeOK, Registered
    <3> QED BY <1>9, <2>2, <3>1, <3>2 DEF AddPeer, Register, TypeOK
  <2> QED BY <1>9, <2>1, <2>2 DEF AddPeer
<1>10. ASSUME NEW e \in Ends, OnPeerConnected(e) \/ LoopEnds(e) PROVE TypeOK'
  BY <1>10 DEF OnPeerConnected, LoopEnds, Advance, TypeOK, Registered
<1>11. ASSUME NEW e \in Ends, RemovePeer(e) PROVE TypeOK'
  <2>1. peers' \in [Nodes -> [Nodes -> Ends \cup {None}]]
    BY <1>11 DEF RemovePeer, TypeOK
  <2> QED BY <1>11, <2>1, LeaveType DEF RemovePeer, TypeOK
<1>12. ASSUME NEW n \in Nodes, Tick(n) PROVE TypeOK'
  <2>1. PICK S \in SUBSET Records :
          /\ dpc' = [g \in Dialers |->
                       IF g.kind = "disc" /\ g.node = n /\ \E r \in S : r[1] = g.peer
                       THEN "jitter" ELSE dpc[g]]
          /\ via' = [g \in Dialers |->
                       IF g.kind = "disc" /\ g.node = n /\ \E r \in S : r[1] = g.peer
                       THEN (CHOOSE r \in S : r[1] = g.peer)[2] ELSE via[g]]
    BY <1>12 DEF Tick
  <2>2. \A p : (\E r \in S : r[1] = p) => (CHOOSE r \in S : r[1] = p)[2] \in Nodes
    BY ManagerAssumption
  <2>3. via' \in [Dialers -> Nodes]
    BY <2>1, <2>2 DEF TypeOK
  <2>4. dpc' \in [Dialers -> {"off", "ready", "jitter", "dial", "conn", "wait", "ended"}]
    BY <2>1 DEF TypeOK
  <2> QED BY <1>12, <2>3, <2>4 DEF Tick, TypeOK
<1>13. ASSUME NEW n \in Nodes, Stop(n) PROVE TypeOK'
  <2>1. stage' \in [Ends -> {"gone", "backlog", "noise", "hello", "add"} \cup Registered]
    BY <1>13 DEF Stop, TypeOK
  <2>2. lost' \subseteq Conns
    BY <1>13 DEF Stop, TypeOK
  <2> QED BY <1>13, <2>1, <2>2, ManagerAssumption DEF Stop, TypeOK
<1>14. ASSUME NEW k \in Conns, Fault(k) PROVE TypeOK'
  <2>1. faults' \in 0 .. MaxFaults
    BY <1>14, ManagerAssumption DEF Fault, TypeOK
  <2> QED BY <1>14, <2>1 DEF Fault, TypeOK
<1>15. CASE UNCHANGED vars
  BY <1>15 DEF vars, TypeOK
<1> QED BY <1>1, <1>2, <1>3, <1>4, <1>5, <1>6, <1>7, <1>8, <1>9, <1>10, <1>11, <1>12,
           <1>13, <1>14, <1>15 DEF Next, Dial, Drive

-----------------------------------------------------------------------------
(* The map.                                                                 *)

\* A step that leaves the map, the two nodes of every connection, and what the
\* ends past the hello are called alone, and that brings no end there or away.
LEMMA Frame ==
    ASSUME IndInv, TypeOK', UNCHANGED <<peers, by, to>>,
           \A e \in Ends :
             /\ stage'[e] \in Registered <=> stage[e] \in Registered
             /\ stage'[e] = "add" => stage[e] = "add"
             /\ stage'[e] \in {"add"} \cup Registered => peerID'[e] = peerID[e]
    PROVE  IndInv'
<1>1. \A e \in Ends : Owner(e)' = Owner(e) /\ Owner(Other(e))' = Owner(Other(e))
  BY DEF Owner
<1>2. MapMatchesConnections'
  <2>1. ASSUME NEW n \in Nodes, NEW m \in Nodes, peers'[n][m] # None
        PROVE  /\ Owner(peers[n][m])' = n /\ peerID'[peers[n][m]] = m
               /\ stage'[peers[n][m]] \in Registered
    <3>1. peers[n][m] \in Ends /\ peers[n][m] # None
      BY <2>1 DEF IndInv, TypeOK
    <3>2. Owner(peers[n][m]) = n /\ peerID[peers[n][m]] = m /\ stage[peers[n][m]] \in Registered
      BY <3>1 DEF IndInv, MapMatchesConnections
    <3> QED BY <1>1, <3>1, <3>2
  <2>2. ASSUME NEW e \in Ends, stage'[e] \in Registered
        PROVE  peers'[Owner(e)'][peerID'[e]] = e
    BY <1>1, <2>2 DEF IndInv, MapMatchesConnections
  <2> QED BY <2>1, <2>2 DEF MapMatchesConnections
<1>3. Bound'
  BY <1>1 DEF IndInv, Bound
<1>4. WithinCapacity'
  BY DEF IndInv, WithinCapacity, Connected
<1> QED BY <1>2, <1>3, <1>4 DEF IndInv

\* An end that is not registered leaves.
LEMMA LeaveStep ==
    ASSUME IndInv, TypeOK', NEW e \in Ends, NEW ok \in BOOLEAN, Leave(e, ok),
           stage[e] \notin Registered, UNCHANGED <<peers, by, to>>
    PROVE  IndInv'
<1>1. /\ stage' = [stage EXCEPT ![e] = "gone"] /\ peerID' = [peerID EXCEPT ![e] = None]
  BY DEF Leave, Advance
<1>2. "gone" \notin Registered /\ "gone" # "add"
  BY DEF Registered
<1>3. \A f \in Ends :
             /\ stage'[f] \in Registered <=> stage[f] \in Registered
             /\ stage'[f] = "add" => stage[f] = "add"
             /\ stage'[f] \in {"add"} \cup Registered => peerID'[f] = peerID[f]
  BY <1>1, <1>2 DEF IndInv, TypeOK
<1> QED BY <1>3, Frame

\* The map grows by an entry for which there is room.
LEMMA RegisterStep ==
    ASSUME IndInv, TypeOK', NEW e \in Ends, stage[e] = "add", Register(e),
           peers[Owner(e)][peerID[e]] = None, ~AtCapacity(Owner(e)), UNCHANGED <<by, to>>
    PROVE  IndInv'
<1> DEFINE n == Owner(e)
           m == peerID[e]
<1>1. n \in Nodes /\ m \in Nodes
  <2>1. m = Owner(Other(e))
    BY DEF IndInv, Bound
  <2> QED BY <2>1, OwnerFacts, EndFacts DEF IndInv
<1>2. /\ peers' = [peers EXCEPT ![n][m] = e] /\ stage' = [stage EXCEPT ![e] = "up"]
      /\ peerID' = peerID
  BY DEF Register, Advance
<1>3. e # None
  BY ManagerAssumption DEF Ends
<1>4. \A f \in Ends : Owner(f)' = Owner(f)
  BY DEF Owner
<1>5. peers[n][m] = None
  OBVIOUS
<1>6. \A i, j \in Nodes : peers'[i][j] = IF i = n /\ j = m THEN e ELSE peers[i][j]
  BY <1>1, <1>2 DEF IndInv, TypeOK
<1>7. \A f \in Ends : stage'[f] = IF f = e THEN "up" ELSE stage[f]
  BY <1>2 DEF IndInv, TypeOK
<1>8. "up" \in Registered /\ "add" \notin Registered
  BY DEF Registered
<1>9. m = Owner(Other(e))
  BY DEF IndInv, Bound
<1> HIDE DEF n, m
<1>10. MapMatchesConnections'
  <2>1. ASSUME NEW i \in Nodes, NEW j \in Nodes, NEW x \in Ends, peers'[i][j] = x
        PROVE  Owner(x)' = i /\ peerID'[x] = j /\ stage'[x] \in Registered
    <3>1. CASE i = n /\ j = m
      <4>1. x = e
        BY <1>6, <2>1, <3>1
      <4> QED BY <1>2, <1>4, <1>7, <1>8, <3>1, <4>1 DEF n, m
    <3>2. CASE ~(i = n /\ j = m)
      <4>1. peers[i][j] = x /\ x # None
        BY <1>6, <2>1, <3>2, ManagerAssumption DEF Ends
      <4>2. Owner(x) = i /\ peerID[x] = j /\ stage[x] \in Registered
        BY <4>1 DEF IndInv, MapMatchesConnections
      <4> QED BY <1>2, <1>4, <1>7, <1>8, <4>2
    <3> QED BY <3>1, <3>2
  <2>2. ASSUME NEW f \in Ends, stage'[f] \in Registered
        PROVE  peers'[Owner(f)'][peerID'[f]] = f
    <3>1. CASE f = e
      BY <1>1, <1>2, <1>4, <1>6, <3>1 DEF n, m
    <3>2. CASE f # e
      <4>1. stage[f] \in Registered
        BY <1>7, <2>2, <3>2
      <4>2. peers[Owner(f)][peerID[f]] = f
        BY <4>1 DEF IndInv, MapMatchesConnections
      <4>3. Owner(f) \in Nodes /\ peerID[f] \in Nodes
        <5>1. peerID[f] = Owner(Other(f))
          BY <4>1 DEF IndInv, Bound
        <5> QED BY <5>1, OwnerFacts, EndFacts DEF IndInv
      <4>4. f # None
        BY ManagerAssumption DEF Ends
      <4>5. ~(Owner(f) = n /\ peerID[f] = m)
        BY <1>5, <4>2, <4>4
      <4> QED BY <1>2, <1>4, <1>6, <4>2, <4>3, <4>5
    <3> QED BY <3>1, <3>2
  <2>3. \A i, j \in Nodes : peers'[i][j] \in Ends \cup {None}
    BY DEF TypeOK
  <2> QED BY <2>1, <2>2, <2>3 DEF MapMatchesConnections, Owner
<1>11. Bound'
  <2>1. ASSUME NEW f \in Ends, stage'[f] \in {"add"} \cup Registered
        PROVE  peerID'[f] = Owner(Other(f))'
    <3>1. stage[f] \in {"add"} \cup Registered
      BY <1>7, <2>1
    <3>2. peerID[f] = Owner(Other(f))
      BY <3>1 DEF IndInv, Bound
    <3> QED BY <1>2, <1>4, <3>2, EndFacts
  <2> QED BY <2>1 DEF Bound
<1>12. WithinCapacity'
  <2> SUFFICES ASSUME MaxPeers > 0, NEW i \in Nodes PROVE Cardinality(Connected(i)') <= MaxPeers
    BY DEF WithinCapacity
  <2>1. IsFiniteSet(Connected(i)) /\ Cardinality(Connected(i)) \in Nat
    BY FS_Subset, FS_CardinalityType, ManagerAssumption DEF Connected
  <2>2. Cardinality(Connected(i)) <= MaxPeers
    BY DEF IndInv, WithinCapacity
  <2>3. CASE i # n
    <3>1. Connected(i)' = Connected(i)
      BY <1>6, <2>3 DEF Connected
    <3> QED BY <2>2, <3>1
  <2>4. CASE i = n
    <3>1. Connected(i)' = Connected(i) \cup {m}
      BY <1>1, <1>3, <1>6, <2>4 DEF Connected
    <3>2. m \notin Connected(i)
      BY <1>5, <2>4 DEF Connected
    <3>3. Cardinality(Connected(i)') = Cardinality(Connected(i)) + 1
      BY <2>1, <3>1, <3>2, FS_AddElement
    <3>4. ~(Cardinality(Connected(i)) >= MaxPeers)
      BY <2>4 DEF AtCapacity, n
    <3> QED BY <2>1, <3>3, <3>4, ManagerAssumption
  <2> QED BY <2>3, <2>4
<1> QED BY <1>10, <1>11, <1>12 DEF IndInv

\* removePeer deletes the entry of the connection that ended and no other.
LEMMA RemoveStep ==
    ASSUME IndInv, TypeOK', NEW e \in Ends, RemovePeer(e)
    PROVE  IndInv'
<1> DEFINE n == Owner(e)
           m == peerID[e]
<1>1. stage[e] \in Registered /\ UNCHANGED <<by, to>>
  BY DEF RemovePeer, Registered
<1>2. m = Owner(Other(e))
  BY <1>1 DEF IndInv, Bound
<1>3. n \in Nodes /\ m \in Nodes
  BY <1>2, OwnerFacts, EndFacts DEF IndInv
<1>4. peers[n][m] = e
  BY <1>1 DEF IndInv, MapMatchesConnections
<1>5. /\ peers' = [peers EXCEPT ![n][m] = None] /\ stage' = [stage EXCEPT ![e] = "gone"]
      /\ peerID' = [peerID EXCEPT ![e] = None]
  BY DEF RemovePeer, Leave, Advance
<1>6. \A f \in Ends : Owner(f)' = Owner(f)
  BY <1>1 DEF Owner
<1>7. \A i, j \in Nodes : peers'[i][j] = IF i = n /\ j = m THEN None ELSE peers[i][j]
  BY <1>3, <1>5 DEF IndInv, TypeOK
<1>8. \A f \in Ends : /\ stage'[f] = IF f = e THEN "gone" ELSE stage[f]
                      /\ peerID'[f] = IF f = e THEN None ELSE peerID[f]
  BY <1>5 DEF IndInv, TypeOK
<1>9. "gone" \notin Registered /\ "gone" # "add"
  BY DEF Registered
<1> HIDE DEF n, m
<1>10. MapMatchesConnections'
  <2>1. ASSUME NEW i \in Nodes, NEW j \in Nodes, NEW x \in Ends, peers'[i][j] = x
        PROVE  Owner(x)' = i /\ peerID'[x] = j /\ stage'[x] \in Registered
    <3>1. x # None
      BY ManagerAssumption DEF Ends
    <3>2. ~(i = n /\ j = m) /\ peers[i][j] = x
      BY <1>7, <2>1, <3>1
    <3>3. Owner(x) = i /\ peerID[x] = j /\ stage[x] \in Registered
      BY <3>1, <3>2 DEF IndInv, MapMatchesConnections
    <3>4. x # e
      BY <3>2, <3>3 DEF n, m
    <3> QED BY <1>6, <1>8, <3>3, <3>4
  <2>2. ASSUME NEW f \in Ends, stage'[f] \in Registered
        PROVE  peers'[Owner(f)'][peerID'[f]] = f
    <3>1. f # e /\ stage[f] \in Registered
      BY <1>8, <1>9, <2>2
    <3>2. peers[Owner(f)][peerID[f]] = f
      BY <3>1 DEF IndInv, MapMatchesConnections
    <3>3. Owner(f) \in Nodes /\ peerID[f] \in Nodes
      <4>1. peerID[f] = Owner(Other(f))
        BY <3>1 DEF IndInv, Bound
      <4> QED BY <4>1, OwnerFacts, EndFacts DEF IndInv
    <3>4. ~(Owner(f) = n /\ peerID[f] = m)
      BY <1>4, <3>1, <3>2
    <3> QED BY <1>6, <1>7, <1>8, <3>1, <3>2, <3>3, <3>4
  <2>3. \A i, j \in Nodes : peers'[i][j] \in Ends \cup {None}
    BY DEF TypeOK
  <2> QED BY <2>1, <2>2, <2>3 DEF MapMatchesConnections, Owner
<1>11. Bound'
  <2>1. ASSUME NEW f \in Ends, stage'[f] \in {"add"} \cup Registered
        PROVE  peerID'[f] = Owner(Other(f))'
    <3>1. f # e /\ stage[f] \in {"add"} \cup Registered
      BY <1>8, <1>9, <2>1
    <3>2. peerID[f] = Owner(Other(f))
      BY <3>1 DEF IndInv, Bound
    <3> QED BY <1>6, <1>8, <3>1, <3>2, EndFacts
  <2> QED BY <2>1 DEF Bound
<1>12. WithinCapacity'
  <2> SUFFICES ASSUME MaxPeers > 0, NEW i \in Nodes PROVE Cardinality(Connected(i)') <= MaxPeers
    BY DEF WithinCapacity
  <2>1. IsFiniteSet(Connected(i)) /\ Connected(i)' \subseteq Connected(i)
    BY <1>7, FS_Subset, ManagerAssumption DEF Connected
  <2>2. Cardinality(Connected(i)') <= Cardinality(Connected(i)) /\ IsFiniteSet(Connected(i)')
    BY <2>1, FS_Subset
  <2>3. Cardinality(Connected(i)) <= MaxPeers
    BY DEF IndInv, WithinCapacity
  <2>4. Cardinality(Connected(i)) \in Nat /\ Cardinality(Connected(i)') \in Nat
    BY <2>1, <2>2, FS_CardinalityType
  <2> QED BY <2>2, <2>3, <2>4, ManagerAssumption
<1> QED BY <1>10, <1>11, <1>12 DEF IndInv

\* A connection is only set up in a slot that nobody uses.
LEMMA ConnectStep ==
    ASSUME IndInv, TypeOK', NEW g \in Dialers, NEW k \in Conns, Connect(g, k)
    PROVE  IndInv'
<1>1. <<k, "out">> \in Ends /\ <<k, "in">> \in Ends
  BY DEF Ends
<1>2. /\ stage[<<k, "out">>] = "gone" /\ stage[<<k, "in">>] = "gone"
      /\ stage' = [stage EXCEPT ![<<k, "out">>] = "noise", ![<<k, "in">>] = "backlog"]
      /\ by' = [by EXCEPT ![k] = g] /\ to' = [to EXCEPT ![k] = via[g]]
      /\ UNCHANGED <<peers, peerID>>
  BY DEF Connect, Free
<1>3. \A e \in Ends : e[1] = k => /\ stage[e] = "gone"
                                  /\ stage'[e] \in {"noise", "backlog"}
  <2>1. \A e \in Ends : e[1] = k => e = <<k, "out">> \/ e = <<k, "in">>
    BY EndFacts
  <2>2. stage'[<<k, "out">>] = "noise" /\ stage'[<<k, "in">>] = "backlog"
    BY <1>1, <1>2 DEF IndInv, TypeOK
  <2> QED BY <1>2, <2>1, <2>2
<1>4. \A e \in Ends : e[1] # k => stage'[e] = stage[e]
  BY <1>2 DEF IndInv, TypeOK
<1>5. \A e \in Ends : e[1] # k => Owner(e)' = Owner(e)
  BY <1>2, EndFacts DEF IndInv, TypeOK, Owner
<1>6. /\ "gone" \notin {"add"} \cup Registered /\ "noise" \notin {"add"} \cup Registered
      /\ "backlog" \notin {"add"} \cup Registered
  BY DEF Registered
<1>7. MapMatchesConnections'
  <2>1. ASSUME NEW i \in Nodes, NEW j \in Nodes, NEW x \in Ends, peers'[i][j] = x
        PROVE  Owner(x)' = i /\ peerID'[x] = j /\ stage'[x] \in Registered
    <3>1. peers[i][j] = x /\ x # None
      BY <1>2, <2>1, ManagerAssumption DEF Ends
    <3>2. Owner(x) = i /\ peerID[x] = j /\ stage[x] \in Registered
      BY <3>1 DEF IndInv, MapMatchesConnections
    <3>3. x[1] # k
      BY <1>3, <1>6, <3>2
    <3> QED BY <1>2, <1>4, <1>5, <3>2, <3>3
  <2>2. ASSUME NEW f \in Ends, stage'[f] \in Registered
        PROVE  peers'[Owner(f)'][peerID'[f]] = f
    <3>1. f[1] # k /\ stage[f] \in Registered
      BY <1>3, <1>4, <1>6, <2>2
    <3>2. peers[Owner(f)][peerID[f]] = f
      BY <3>1 DEF IndInv, MapMatchesConnections
    <3> QED BY <1>2, <1>5, <3>1, <3>2
  <2>3. \A i, j \in Nodes : peers'[i][j] \in Ends \cup {None}
    BY DEF TypeOK
  <2> QED BY <2>1, <2>2, <2>3 DEF MapMatchesConnections, Owner
<1>8. Bound'
  <2>1. ASSUME NEW f \in Ends, stage'[f] \in {"add"} \cup Registered
        PROVE  peerID'[f] = Owner(Other(f))'
    <3>1. f[1] # k /\ stage[f] \in {"add"} \cup Registered
      BY <1>3, <1>4, <1>6, <2>1
    <3>2. peerID[f] = Owner(Other(f))
      BY <3>1 DEF IndInv, Bound
    <3> QED BY <1>2, <1>5, <3>1, <3>2, EndFacts
  <2> QED BY <2>1 DEF Bound
<1>9. WithinCapacity'
  BY <1>2 DEF IndInv, WithinCapacity, Connected
<1> QED BY <1>7, <1>8, <1>9 DEF IndInv

\* A verified hello fixes the identifier.
LEMMA HelloStep ==
    ASSUME IndInv, TypeOK', NEW e \in Ends, ExchangeHello(e)
    PROVE  IndInv'
<1>1. stage[e] = "hello" /\ "hello" \notin Registered /\ UNCHANGED <<peers, by, to>>
  BY DEF ExchangeHello, Registered
<1>2. CASE Leave(e, FALSE)
  BY <1>1, <1>2, LeaveStep
<1>3. CASE ~Leave(e, FALSE)
  <2>1. PICK h \in Hellos(Owner(Other(e))) : Verified(h, Owner(Other(e)))
          /\ Advance(e, "add") /\ peerID' = [peerID EXCEPT ![e] = h.nodeId]
    BY <1>3 DEF ExchangeHello
  <2>2. h.nodeId = Owner(Other(e))
    BY <2>1 DEF Verified
  <2>3. \A f \in Ends : /\ stage'[f] = IF f = e THEN "add" ELSE stage[f]
                        /\ peerID'[f] = IF f = e THEN Owner(Other(e)) ELSE peerID[f]
    BY <2>1, <2>2 DEF IndInv, TypeOK, Advance
  <2>4. \A f \in Ends : Owner(f)' = Owner(f)
    BY <1>1 DEF Owner
  <2>5. "add" \notin Registered
    BY DEF Registered
  <2>6. MapMatchesConnections'
    <3>1. ASSUME NEW i \in Nodes, NEW j \in Nodes, NEW x \in Ends, peers'[i][j] = x
          PROVE  Owner(x)' = i /\ peerID'[x] = j /\ stage'[x] \in Registered
      <4>1. peers[i][j] = x /\ x # None
        BY <1>1, <3>1, ManagerAssumption DEF Ends
      <4>2. Owner(x) = i /\ peerID[x] = j /\ stage[x] \in Registered
        BY <4>1 DEF IndInv, MapMatchesConnections
      <4> QED BY <1>1, <2>3, <2>4, <4>2
    <3>2. ASSUME NEW f \in Ends, stage'[f] \in Registered
          PROVE  peers'[Owner(f)'][peerID'[f]] = f
      <4>1. f # e /\ stage[f] \in Registered
        BY <2>3, <2>5, <3>2
      <4>2. peers[Owner(f)][peerID[f]] = f
        BY <4>1 DEF IndInv, MapMatchesConnections
      <4> QED BY <1>1, <2>3, <2>4, <4>1, <4>2
    <3>3. \A i, j \in Nodes : peers'[i][j] \in Ends \cup {None}
      BY DEF TypeOK
    <3> QED BY <3>1, <3>2, <3>3 DEF MapMatchesConnections, Owner
  <2>7. Bound'
    <3>1. ASSUME NEW f \in Ends, stage'[f] \in {"add"} \cup Registered
          PROVE  peerID'[f] = Owner(Other(f))'
      <4>1. Owner(Other(f))' = Owner(Other(f))
        BY <2>4, EndFacts
      <4>2. CASE f = e
        BY <2>3, <4>1, <4>2
      <4>3. CASE f # e
        BY <2>3, <3>1, <4>1, <4>3 DEF IndInv, Bound
      <4> QED BY <4>2, <4>3
    <3> QED BY <3>1 DEF Bound
  <2>8. WithinCapacity'
    BY <1>1 DEF IndInv, WithinCapacity, Connected
  <2> QED BY <2>6, <2>7, <2>8 DEF IndInv
<1> QED BY <1>2, <1>3

\* Every step keeps the inductive invariant.
LEMMA NextInd == IndInv /\ [Next]_vars => IndInv'
<1> SUFFICES ASSUME IndInv, [Next]_vars PROVE IndInv'
  OBVIOUS
<1>1. TypeOK'
  BY TypeStep DEF IndInv
<1>2. CASE UNCHANGED <<peers, by, to, stage, peerID>>
  BY <1>1, <1>2, Frame
<1>3. ASSUME NEW g \in Dialers, Check(g) \/ Retry(g) \/ Jitter(g) \/ ConnectFails(g) PROVE IndInv'
  BY <1>2, <1>3 DEF Check, Retry, Jitter, ConnectFails
<1>4. ASSUME NEW g \in Dialers, NEW k \in Conns, Connect(g, k) PROVE IndInv'
  BY <1>1, <1>4, ConnectStep
<1>5. ASSUME NEW n \in Nodes, Tick(n) PROVE IndInv'
  BY <1>2, <1>5 DEF Tick
<1>6. ASSUME NEW k \in Conns, Fault(k) PROVE IndInv'
  BY <1>2, <1>6 DEF Fault
<1>7. CASE UNCHANGED vars
  BY <1>2, <1>7 DEF vars
<1>8. ASSUME NEW e \in Ends, HandleInbound(e) PROVE IndInv'
  <2>1. stage[e] = "backlog" /\ "backlog" \notin Registered /\ UNCHANGED <<peers, by, to>>
    BY <1>8 DEF HandleInbound, Registered
  <2>2. CASE Leave(e, FALSE)
    BY <1>1, <2>1, <2>2, LeaveStep
  <2>3. CASE Advance(e, "noise") /\ UNCHANGED peerID
    BY <1>1, <2>1, <2>3, Frame DEF Advance, IndInv, TypeOK, Registered
  <2> QED BY <1>8, <2>2, <2>3 DEF HandleInbound
<1>9. ASSUME NEW e \in Ends, Handshake(e) PROVE IndInv'
  BY <1>1, <1>9, Frame DEF Handshake, Advance, IndInv, TypeOK, Registered
<1>10. ASSUME NEW e \in Ends, ExchangeHello(e) PROVE IndInv'
  BY <1>1, <1>10, HelloStep
<1>11. ASSUME NEW e \in Ends, Fail(e) PROVE IndInv'
  <2>1. stage[e] \notin Registered /\ Leave(e, FALSE) /\ UNCHANGED <<peers, by, to>>
    BY <1>11 DEF Fail, Registered
  <2> QED BY <1>1, <2>1, LeaveStep
<1>12. ASSUME NEW e \in Ends, AddPeer(e) PROVE IndInv'
  <2>1. stage[e] = "add" /\ "add" \notin Registered /\ UNCHANGED <<by, to>>
    BY <1>12 DEF AddPeer, Registered
  <2>2. CASE Reject(e)
    <3>1. Leave(e, FALSE) /\ UNCHANGED peers
      BY <2>2 DEF Reject
    <3> QED BY <1>1, <2>1, <3>1, LeaveStep
  <2>3. CASE Register(e) /\ peers[Owner(e)][peerID[e]] = None /\ ~AtCapacity(Owner(e))
    BY <1>1, <2>1, <2>3, RegisterStep
  <2> QED BY <1>12, <2>2, <2>3 DEF AddPeer
<1>13. ASSUME NEW e \in Ends, OnPeerConnected(e) \/ LoopEnds(e) PROVE IndInv'
  BY <1>1, <1>13, Frame DEF OnPeerConnected, LoopEnds, Advance, IndInv, TypeOK, Registered
<1>14. ASSUME NEW e \in Ends, RemovePeer(e) PROVE IndInv'
  BY <1>1, <1>14, RemoveStep
<1>15. ASSUME NEW n \in Nodes, Stop(n) PROVE IndInv'
  <2>1. UNCHANGED <<peers, by, to, peerID>>
    BY <1>15 DEF Stop
  <2>2. \A e \in Ends : stage'[e] = stage[e] \/ (stage[e] = "backlog" /\ stage'[e] = "gone")
    BY <1>15 DEF Stop
  <2> QED BY <1>1, <2>1, <2>2, Frame DEF Registered
<1> QED BY <1>3, <1>4, <1>5, <1>6, <1>7, <1>8, <1>9, <1>10, <1>11, <1>12, <1>13, <1>14,
           <1>15 DEF Next, Dial, Drive

-----------------------------------------------------------------------------
\* The inductive invariant holds in every state of every behaviour of the
\* managers.
THEOREM Invariance == Spec => []IndInv
BY InitInd, NextInd, PTL DEF Spec

\* Every variable keeps its type; in particular the retry delay of
\* dialWithBackoff stays between one second and the longest delay.
THEOREM TypeCorrect == Spec => []TypeOK
<1>1. IndInv => TypeOK
  BY DEF IndInv
<1> QED BY Invariance, <1>1, PTL

\* The peer map holds exactly the connections between addPeer and removePeer.
THEOREM MapMatchesConnectionsHolds == Spec => []MapMatchesConnections
<1>1. IndInv => MapMatchesConnections
  BY DEF IndInv
<1> QED BY Invariance, <1>1, PTL

\* Whoever is in the peer map under an identifier holds the key of that node,
\* however many nodes lie in their hellos (verifyPeerIdentity).
THEOREM PeersAuthenticatedHolds == Spec => []PeersAuthenticated
<1>1. IndInv => PeersAuthenticated
  <2> SUFFICES ASSUME IndInv, NEW n \in Nodes, NEW m \in Nodes, peers[n][m] # None
               PROVE  Owner(Other(peers[n][m])) = m
    BY DEF PeersAuthenticated
  <2>1. peers[n][m] \in Ends
    BY DEF IndInv, TypeOK
  <2>2. peerID[peers[n][m]] = m /\ stage[peers[n][m]] \in Registered
    BY DEF IndInv, MapMatchesConnections
  <2> QED BY <2>1, <2>2 DEF IndInv, Bound
<1> QED BY Invariance, <1>1, PTL

\* The map never holds more than max_peers entries (addPeer), however many
\* handshakes have passed the early check of handleInbound.
THEOREM WithinCapacityHolds == Spec => []WithinCapacity
<1>1. IndInv => WithinCapacity
  BY DEF IndInv
<1> QED BY Invariance, <1>1, PTL
=============================================================================
