----------------------------- MODULE MeshProofs -----------------------------
(***************************************************************************)
(* Proofs about Mesh, for every topology, number of messages, hop limit,   *)
(* fanout and queue length: type correctness, the reach of a message and   *)
(* the refinement of Dissemination.                                        *)
(***************************************************************************)
EXTENDS Mesh, TLAPS

\* The copy c may travel from node n: it was written, has hops left, and is no
\* further from its author than the hops it has used.
MayLeave(c, n, W) ==
    /\ c.msg \in W /\ c.hops >= 1
    /\ n \in Within[Author[c.msg]][MaxHops - c.hops]

\* What holds of the wires w while the links U are up and W has been written.
WiresOK(w, U, W) ==
    /\ w \in [Links -> Seq(Copy)]
    /\ \A l \in Links : Len(w[l]) <= QueueCap /\ (w[l] # << >> => l \in U)
    /\ \A l \in Links : \A i \in 1 .. Len(w[l]) : MayLeave(w[l][i], l[1], W)

\* What has been shown was within the reach of its author.
Reached == \A n \in Nodes : \A m \in reached[n] : n \in Within[Author[m]][MaxHops]

\* The inductive invariant.
IndInv ==
    /\ up \subseteq Links
    /\ WiresOK(wire, up, written)
    /\ seen \in [Nodes -> SUBSET Msgs] /\ reached \in [Nodes -> SUBSET Msgs]
    /\ shown \in [Nodes -> [Msgs -> Nat]]
    /\ breaks \in 0 .. MaxBreaks
    /\ written \subseteq Msgs /\ lost \subseteq Msgs
    /\ Reached

\* A link is made of its two nodes.
LEMMA LinkEnds == ASSUME NEW l \in Links
                  PROVE  l[1] \in Nodes /\ l[2] \in Nodes /\ l = <<l[1], l[2]>>
  BY MeshAssumption

\* Sending to connected nodes a copy that may leave keeps the wires in order.
LEMMA SentKeeps ==
  ASSUME NEW w, NEW U, NEW W, NEW n \in Nodes, NEW S, NEW c \in Copy,
         WiresOK(w, U, W), MayLeave(c, n, W), \A p \in S : <<n, p>> \in U
  PROVE  WiresOK(Sent(w, n, S, c), U, W)
  <1> DEFINE v == Sent(w, n, S, c)
  <1>1. \A l \in Links : v[l] = IF l[1] = n /\ l[2] \in S /\ Len(w[l]) < QueueCap
                                THEN Append(w[l], c) ELSE w[l]
    BY DEF Sent
  <1>2. v \in [Links -> Seq(Copy)]
    BY DEF Sent, WiresOK
  <1>3. ASSUME NEW l \in Links
        PROVE  /\ Len(v[l]) <= QueueCap
               /\ v[l] # << >> => l \in U
               /\ \A i \in 1 .. Len(v[l]) : MayLeave(v[l][i], l[1], W)
    <2>1. w[l] \in Seq(Copy)
      BY DEF WiresOK
    <2>2. CASE l[1] = n /\ l[2] \in S /\ Len(w[l]) < QueueCap
      <3>1. v[l] = Append(w[l], c) /\ l = <<n, l[2]>>
        BY <1>1, <2>2, LinkEnds
      <3>2. l \in U
        BY <2>2, <3>1
      <3>3. Len(v[l]) = Len(w[l]) + 1 /\ v[l][Len(w[l]) + 1] = c
            /\ \A i \in 1 .. Len(w[l]) : v[l][i] = w[l][i]
        BY <2>1, <3>1
      <3>4. Len(v[l]) <= QueueCap
        BY <2>1, <2>2, <3>3, MeshAssumption
      <3>5. ASSUME NEW i \in 1 .. Len(v[l]) PROVE MayLeave(v[l][i], l[1], W)
        <4>1. i = Len(w[l]) + 1 \/ i \in 1 .. Len(w[l])
          BY <2>1, <3>3
        <4> QED BY <2>2, <3>3, <4>1 DEF WiresOK
      <3> QED BY <3>2, <3>4, <3>5
    <2>3. CASE ~(l[1] = n /\ l[2] \in S /\ Len(w[l]) < QueueCap)
      <3>1. v[l] = w[l]
        BY <1>1, <2>3
      <3> QED BY <3>1 DEF WiresOK
    <2> QED BY <2>2, <2>3
  <1> QED BY <1>2, <1>3 DEF WiresOK

\* Reading the first copy of a link keeps the wires in order, and that copy was
\* one that may travel.
LEMMA ReadKeeps ==
  ASSUME NEW l \in Links, IndInv, wire[l] # << >>
  PROVE  /\ WiresOK(Read(l), up, written)
         /\ Head(wire[l]) \in Copy /\ MayLeave(Head(wire[l]), l[1], written)
  <1>1. wire \in [Links -> Seq(Copy)] /\ wire[l] \in Seq(Copy)
    BY DEF IndInv, WiresOK
  <1>2. Tail(wire[l]) \in Seq(Copy) /\ Len(Tail(wire[l])) = Len(wire[l]) - 1
        /\ \A i \in 1 .. Len(Tail(wire[l])) : Tail(wire[l])[i] = wire[l][i + 1]
    BY <1>1
  <1>3. Len(wire[l]) \in Nat /\ Len(wire[l]) >= 1 /\ Head(wire[l]) = wire[l][1]
    BY <1>1
  <1>4. Head(wire[l]) \in Copy
    BY <1>1, <1>3
  <1>5. MayLeave(Head(wire[l]), l[1], written)
    BY <1>3 DEF IndInv, WiresOK
  <1>6. Read(l) \in [Links -> Seq(Copy)]
    BY <1>1, <1>2 DEF Read
  <1>7. \A k \in Links : Read(l)[k] = IF k = l THEN Tail(wire[l]) ELSE wire[k]
    BY <1>1 DEF Read
  <1>8. ASSUME NEW k \in Links
        PROVE  /\ Len(Read(l)[k]) <= QueueCap
               /\ Read(l)[k] # << >> => k \in up
               /\ \A i \in 1 .. Len(Read(l)[k]) : MayLeave(Read(l)[k][i], k[1], written)
    <2>1. CASE k = l
      <3>1. Len(wire[l]) <= QueueCap /\ l \in up
        BY DEF IndInv, WiresOK
      <3>2. ASSUME NEW i \in 1 .. Len(Tail(wire[l]))
            PROVE  MayLeave(Tail(wire[l])[i], l[1], written)
        <4>1. i + 1 \in 1 .. Len(wire[l])
          BY <1>2, <1>3
        <4> QED BY <1>2, <4>1 DEF IndInv, WiresOK
      <3>3. Len(Tail(wire[l])) <= QueueCap
        BY <1>2, <1>3, <3>1, MeshAssumption
      <3>4. Read(l)[k] = Tail(wire[l])
        BY <1>7, <2>1
      <3> QED BY <2>1, <3>1, <3>2, <3>3, <3>4
    <2>2. CASE k # l
      BY <1>7, <2>2 DEF IndInv, WiresOK
    <2> QED BY <2>1, <2>2
  <1> QED BY <1>4, <1>5, <1>6, <1>8 DEF WiresOK

\* One hop further: the receiver of a copy is one of those it may reach, and if
\* hops are left the copy may leave from there with one hop less.
LEMMA OneHop ==
  ASSUME NEW l \in Links, NEW c \in Copy, NEW W, MayLeave(c, l[1], W)
  PROVE  /\ l[2] \in Within[Author[c.msg]][MaxHops]
         /\ c.hops > 1 => /\ [msg |-> c.msg, hops |-> c.hops - 1] \in Copy
                          /\ MayLeave([msg |-> c.msg, hops |-> c.hops - 1], l[2], W)
  <1> DEFINE a == Author[c.msg]
             k == MaxHops - c.hops
  <1>1. c.msg \in Msgs /\ c.hops \in 0 .. MaxHops /\ c.hops >= 1
    BY DEF Copy, MayLeave
  <1>2. a \in Nodes /\ MaxHops \in Nat
    BY <1>1, MeshAssumption
  <1>3. k \in 0 .. MaxHops - 1 /\ k + 1 \in 0 .. MaxHops /\ MaxHops \in 0 .. MaxHops
        /\ k + 1 <= MaxHops /\ k + 1 = MaxHops - (c.hops - 1)
    BY <1>1, <1>2
  <1>4. l[2] \in Within[a][k + 1]
    <2>1. l[1] \in Within[a][k]
      BY DEF MayLeave
    <2> HIDE DEF a, k
    <2> QED BY <1>2, <1>3, <2>1, MeshAssumption
  <1>5. l[2] \in Within[a][MaxHops]
    <2> HIDE DEF a, k
    <2> QED BY <1>2, <1>3, <1>4, MeshAssumption
  <1>6. ASSUME c.hops > 1
        PROVE  /\ [msg |-> c.msg, hops |-> c.hops - 1] \in Copy
               /\ MayLeave([msg |-> c.msg, hops |-> c.hops - 1], l[2], W)
    <2>1. c.hops - 1 \in 0 .. MaxHops /\ c.hops - 1 >= 1
      BY <1>1, <1>2, <1>6
    <2>2. l[2] \in Within[a][MaxHops - (c.hops - 1)]
      BY <1>3, <1>4
    <2> QED BY <1>1, <2>1, <2>2 DEF MayLeave, Copy
  <1> QED BY <1>5, <1>6

\* Only a written message is put on a wire, so writing more changes nothing there.
LEMMA WrittenGrows ==
  ASSUME NEW w, NEW U, NEW W, NEW V, W \subseteq V, WiresOK(w, U, W)
  PROVE  WiresOK(w, U, V)
  BY DEF WiresOK, MayLeave

LEMMA InitInd == Init => IndInv
  <1> SUFFICES ASSUME Init PROVE IndInv
    OBVIOUS
  <1>1. WiresOK(wire, up, written)
    <2>1. \A l \in Links : wire[l] = << >>
      BY DEF Init
    <2>2. wire \in [Links -> Seq(Copy)]
      BY DEF Init
    <2> QED BY <2>1, <2>2, MeshAssumption DEF WiresOK
  <1> QED BY <1>1, MeshAssumption DEF Init, IndInv, Reached

LEMMA BroadcastInd ==
  ASSUME IndInv, NEW m \in Msgs, Broadcast(m)
  PROVE  IndInv'
  <1> DEFINE a == Author[m]
             c == [msg |-> m, hops |-> MaxHops]
  <1>1. a \in Nodes /\ MaxHops \in Nat /\ MaxHops >= 1 /\ MaxHops - MaxHops = 0
    BY MeshAssumption
  <1>2. c \in Copy /\ MayLeave(c, a, written')
    <2>1. c \in Copy
      BY <1>1 DEF Copy
    <2>2. a \in Within[a][MaxHops - MaxHops]
      BY <1>1, MeshAssumption
    <2> QED BY <1>1, <2>1, <2>2 DEF MayLeave, Broadcast
  <1>3. WiresOK(wire, up, written')
    BY WrittenGrows DEF IndInv, Broadcast
  <1>4. \A p \in PeersOf(a) : <<a, p>> \in up
    BY DEF PeersOf
  <1>5. WiresOK(Sent(wire, a, PeersOf(a), c), up, written')
    <2> HIDE DEF a, c
    <2> QED BY <1>1, <1>2, <1>3, <1>4, SentKeeps
  <1>6. WiresOK(wire', up', written')
    BY <1>5 DEF Broadcast
  <1>7. seen' \in [Nodes -> SUBSET Msgs] /\ written' \subseteq Msgs /\ lost' \subseteq Msgs
    BY <1>1 DEF IndInv, Broadcast
  <1> QED BY <1>6, <1>7 DEF IndInv, Broadcast, Reached

LEMMA AcceptInd ==
  ASSUME IndInv, NEW l \in Links, NEW S \in SUBSET PeersOf(l[2]), Accept(l, S)
  PROVE  IndInv'
  <1> DEFINE n == l[2]
             c == Head(wire[l])
             d == [msg |-> c.msg, hops |-> c.hops - 1]
  <1>1. wire[l] # << >> /\ n \in Nodes
    BY LinkEnds DEF Accept
  <1>2. c \in Copy /\ c.msg \in Msgs /\ c.hops \in Nat /\ MayLeave(c, l[1], written)
    BY <1>1, ReadKeeps, MeshAssumption DEF Copy
  <1>3. WiresOK(Read(l), up, written)
    BY <1>1, ReadKeeps
  <1>4. /\ n \in Within[Author[c.msg]][MaxHops]
        /\ c.hops > 1 => d \in Copy /\ MayLeave(d, n, written)
    BY <1>2, OneHop
  <1>5. WiresOK(wire', up, written)
    <2>1. CASE c.hops <= 1
      BY <1>3, <2>1 DEF Accept
    <2>2. CASE ~(c.hops <= 1)
      <3>1. Chosen(n, l[1], S) /\ wire' = Sent(Read(l), n, S, d)
        BY <2>2 DEF Accept, Forward
      <3>2. \A p \in S : <<n, p>> \in up
        BY <3>1 DEF Chosen, PeersOf
      <3>3. d \in Copy /\ MayLeave(d, n, written)
        BY <1>2, <1>4, <2>2
      <3> HIDE DEF n, c, d
      <3> QED BY <1>1, <1>3, <3>1, <3>2, <3>3, SentKeeps
    <2> QED BY <2>1, <2>2
  <1>6. /\ seen' \in [Nodes -> SUBSET Msgs] /\ reached' \in [Nodes -> SUBSET Msgs]
        /\ shown' \in [Nodes -> [Msgs -> Nat]]
    <2>1. seen' \in [Nodes -> SUBSET Msgs] /\ reached' \in [Nodes -> SUBSET Msgs]
      BY <1>1, <1>2 DEF IndInv, Accept
    <2>2. shown' = [shown EXCEPT ![n][c.msg] = @ + 1]
      BY DEF Accept
    <2> HIDE DEF n, c
    <2>3. shown' \in [Nodes -> [Msgs -> Nat]]
      BY <1>1, <1>2, <2>2 DEF IndInv
    <2> QED BY <2>1, <2>3
  <1>7. Reached'
    <2>1. \A k \in Nodes : reached'[k] = IF k = n THEN reached[n] \cup {c.msg} ELSE reached[k]
      BY <1>1 DEF IndInv, Accept
    <2> HIDE DEF n, c
    <2> QED BY <1>4, <2>1 DEF IndInv, Reached
  <1>8. lost' \subseteq Msgs
    BY <1>2 DEF IndInv, Accept, Forward
  <1> QED BY <1>5, <1>6, <1>7, <1>8 DEF IndInv, Accept

LEMMA RefuseInd ==
  ASSUME IndInv, NEW l \in Links, Refuse(l)
  PROVE  IndInv'
  <1>1. WiresOK(Read(l), up, written)
    BY ReadKeeps DEF Refuse
  <1>2. lost' \subseteq Msgs
    BY ReadKeeps DEF IndInv, Refuse, Copy
  <1> QED BY <1>1, <1>2 DEF IndInv, Refuse, Reached

LEMMA BreakInd ==
  ASSUME IndInv, NEW l \in Links, Break(l)
  PROVE  IndInv'
  <1>1. wire \in [Links -> Seq(Copy)]
    BY DEF IndInv, WiresOK
  <1>2. wire' \in [Links -> Seq(Copy)]
    BY <1>1 DEF Break
  <1>3. ASSUME NEW k \in Links
        PROVE  /\ Len(wire'[k]) <= QueueCap
               /\ wire'[k] # << >> => k \in up'
               /\ \A i \in 1 .. Len(wire'[k]) : MayLeave(wire'[k][i], k[1], written)
    <2>1. CASE k \in {l, Reverse(l)}
      <3>1. wire'[k] = << >>
        BY <2>1 DEF Break
      <3> QED BY <3>1, MeshAssumption
    <2>2. CASE k \notin {l, Reverse(l)}
      <3>1. wire'[k] = wire[k] /\ (k \in up => k \in up')
        BY <2>2 DEF Break
      <3> QED BY <3>1 DEF IndInv, WiresOK
    <2> QED BY <2>1, <2>2
  <1>4. WiresOK(wire', up', written)
    BY <1>2, <1>3 DEF WiresOK
  <1>5. up' \subseteq Links /\ breaks' \in 0 .. MaxBreaks
    BY MeshAssumption DEF IndInv, Break
  <1>6. Carried(l) \subseteq Msgs /\ Carried(Reverse(l)) \subseteq Msgs
    <2>1. Reverse(l) \in Links
      BY LinkEnds, MeshAssumption DEF Reverse
    <2>2. ASSUME NEW k \in Links PROVE Carried(k) \subseteq Msgs
      <3>1. wire[k] \in Seq(Copy)
        BY <1>1
      <3>2. \A i \in 1 .. Len(wire[k]) : wire[k][i] \in Copy
        BY <3>1
      <3> QED BY <3>2 DEF Carried, Copy
    <2> QED BY <2>1, <2>2
  <1>7. lost' \subseteq Msgs
    BY <1>6 DEF IndInv, Break
  <1> QED BY <1>4, <1>5, <1>7 DEF IndInv, Break, Reached

LEMMA ReconnectInd ==
  ASSUME IndInv, NEW l \in Links, Reconnect(l)
  PROVE  IndInv'
  <1>1. Reverse(l) \in Links
    BY LinkEnds, MeshAssumption DEF Reverse
  <1>2. up \subseteq up' /\ up' \subseteq Links
    BY <1>1 DEF IndInv, Reconnect
  <1>3. WiresOK(wire, up', written)
    BY <1>2 DEF IndInv, WiresOK
  <1> QED BY <1>2, <1>3 DEF IndInv, Reconnect, Reached

LEMMA ExpireInd ==
  ASSUME IndInv, NEW n \in Nodes, NEW m \in Msgs, Expire(n, m)
  PROVE  IndInv'
  <1>1. seen' \in [Nodes -> SUBSET Msgs]
    BY DEF IndInv, Expire
  <1>2. shown' \in [Nodes -> [Msgs -> Nat]]
    BY DEF IndInv, Expire
  <1> QED BY <1>1, <1>2 DEF IndInv, Expire, Reached

LEMMA NextInd == IndInv /\ [Next]_vars => IndInv'
  <1> SUFFICES ASSUME IndInv, [Next]_vars PROVE IndInv'
    OBVIOUS
  <1>1. CASE UNCHANGED vars
    BY <1>1 DEF vars, IndInv, Reached
  <1>2. CASE \E m \in Msgs : Broadcast(m)
    BY <1>2, BroadcastInd
  <1>3. CASE \E l \in Links : HandleIncoming(l)
    BY <1>3, AcceptInd, RefuseInd DEF HandleIncoming
  <1>4. CASE \E l \in Links : Break(l) \/ Reconnect(l)
    BY <1>4, BreakInd, ReconnectInd
  <1>5. CASE \E n \in Nodes, m \in Msgs : Expire(n, m)
    BY <1>5, ExpireInd
  <1> QED BY <1>1, <1>2, <1>3, <1>4, <1>5 DEF Next

\* The invariant holds in every reachable state.
THEOREM Inductive == Spec => []IndInv
  BY InitInd, NextInd, PTL DEF Spec

\* The type invariant: queues stay within their limits and only links that are up
\* carry copies.
THEOREM TypeCorrect == Spec => []TypeOK
  <1>1. IndInv => TypeOK
    BY DEF IndInv, WiresOK, TypeOK
  <1> QED BY <1>1, Inductive, PTL

\* The hop limit bounds the reach of a message (HandleIncoming step 7), in every
\* topology and whatever seen caches forget.
THEOREM HopLimit == Spec => []Horizon
  <1>1. IndInv => Horizon
    BY DEF IndInv, WiresOK, MayLeave, Reached, Horizon
  <1> QED BY <1>1, Inductive, PTL

\* A step of the mesh is a step of Dissemination, or does not concern it.
LEMMA StepRefines == IndInv /\ [Next]_vars => [D!Next]_(D!vars)
  <1> SUFFICES ASSUME IndInv, [Next]_vars PROVE [D!Next]_(D!vars)
    OBVIOUS
  <1>1. CASE UNCHANGED vars
    BY <1>1 DEF vars, D!vars
  <1>2. ASSUME NEW m \in Msgs, Broadcast(m) PROVE D!Next
    <2>1. D!Write(m)
      BY <1>2 DEF Broadcast, D!Write
    <2> QED BY <2>1 DEF D!Next
  <1>3. ASSUME NEW l \in Links, NEW S \in SUBSET PeersOf(l[2]), Accept(l, S) PROVE D!Next
    <2>1. l[2] \in Nodes /\ Head(wire[l]).msg \in Msgs /\ Head(wire[l]).msg \in written
      BY <1>3, LinkEnds, ReadKeeps DEF Accept, MayLeave, Copy
    <2>2. D!Show(l[2], Head(wire[l]).msg)
      BY <1>3, <2>1 DEF Accept, D!Show
    <2> QED BY <2>1, <2>2 DEF D!Next
  <1>4. ASSUME NEW l \in Links, Refuse(l) \/ Break(l) \/ Reconnect(l)
        PROVE  UNCHANGED D!vars
    BY <1>4 DEF Refuse, Break, Reconnect, D!vars
  <1>5. ASSUME NEW n \in Nodes, NEW m \in Msgs, Expire(n, m) PROVE D!Next
    <2>1. D!Forget(n, m)
      BY <1>5 DEF Expire, D!Forget
    <2> QED BY <2>1 DEF D!Next
  <1> QED BY <1>1, <1>2, <1>3, <1>4, <1>5 DEF Next, HandleIncoming

\* The mesh implements its abstract specification: whatever gets lost, comes twice
\* or is forgotten, nothing appears that was not written, and nothing a second
\* time while the node remembers it (HandleIncoming, Broadcast).
THEOREM Refinement == Spec => ImplementsDissemination
  <1>1. Init => D!Init
    BY DEF Init, D!Init
  <1> QED BY <1>1, Inductive, StepRefines, PTL DEF Spec, ImplementsDissemination, D!Spec
=============================================================================
