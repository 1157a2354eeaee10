---------------------------- MODULE GossipProofs ----------------------------
(***************************************************************************)
(* Proofs about the gossip engine of one node, for every set of nodes,     *)
(* keys, connections and messages and every value of the limits.           *)
(***************************************************************************)
EXTENDS Gossip, TLAPS

USE DEF Never, TrustDirectlyVerified, TrustGossipLearned, Unlisted

-----------------------------------------------------------------------------
(* Type correctness.                                                        *)

\* The state NewEngine and NewManager set up has the right types.
LEMMA InitType == Init => TypeOK
BY NodeAssumption, WireAssumption, LimitAssumption
DEF Init, TypeOK, KeyEntry, NoEntry, SenderState, NoSender, Idle, Steps

\* The amounts the limiter computes stay in the bucket.
LEMMA TokensType ==
    ASSUME TypeOK, NEW s \in NodeIds, limiter[s].lastCheck <= clock
    PROVE  Tokens(s) \in 0 .. Burst
BY LimitAssumption DEF TypeOK, SenderState, Tokens

\* Adding a key keeps the keyring a keyring.
LEMMA AddedType ==
    ASSUME TypeOK, NEW n \in NodeIds, NEW k \in Keys \cup {NoKey}, NEW t \in {0, 1}
    PROVE  Added(n, k, t) \in [NodeIds -> KeyEntry]
BY DEF TypeOK, KeyEntry, Added

\* No time stamp lies in the future.
NotAhead ==
    /\ \A n \in NodeIds : limiter[n].lastCheck <= clock
    /\ \A m \in MsgIds : seen[m] <= clock /\ markedAt[m] <= clock

\* Nothing bears a time later than the clock at the start.
LEMMA InitNotAhead == Init => NotAhead
BY DEF Init, NotAhead, NoSender

\* What fanoutLoop broadcasts is an envelope.
LEMMA OwnEnvelopeType == \A m \in OwnIds : OwnEnvelope(m) \in Envelope
BY NodeAssumption, WireAssumption, LimitAssumption DEF OwnEnvelope, Envelope

\* TypeOK is inductive together with NotAhead: a time stamp in the future would
\* make the refill of the bucket negative.
LEMMA NextType == TypeOK /\ NotAhead /\ [Next]_vars => TypeOK' /\ NotAhead'
<1> SUFFICES ASSUME TypeOK, NotAhead, [Next]_vars PROVE TypeOK' /\ NotAhead'
  OBVIOUS
<1> USE NodeAssumption, WireAssumption, LimitAssumption
<1>0. ASSUME NEW m \in MsgIds
      PROVE  /\ Marked(m) \in [MsgIds -> Never .. MaxClock]
             /\ MarkedAt(m) \in [MsgIds -> Never .. MaxClock]
             /\ \A x \in MsgIds : Marked(m)[x] <= clock /\ MarkedAt(m)[x] <= clock
  BY DEF TypeOK, NotAhead, Marked, MarkedAt, Has
<1>1. CASE Tick
  BY <1>1 DEF Tick, TypeOK, NotAhead, engineVars, handlerVars, history, SenderState
<1>2. CASE SeenCleanup
  BY <1>2 DEF SeenCleanup, TypeOK, NotAhead, handlerVars, history
<1>3. CASE LimiterCleanup
  BY <1>3 DEF LimiterCleanup, TypeOK, NotAhead, handlerVars, history,
     SenderState, NoSender
<1>4. ASSUME NEW c \in Conns, Connection(c) PROVE TypeOK' /\ NotAhead'
  <2>1. CASE AddPeer(c)
    BY <2>1 DEF AddPeer, TypeOK, NotAhead, engineVars, handlerVars, history
  <2>2. CASE PeerConnected(c)
    <3>1. PeerOf[c] \in NodeIds
      OBVIOUS
    <3>2. PICK k \in Keys : keys' = Added(PeerOf[c], k, TrustDirectlyVerified)
      BY <2>2 DEF PeerConnected
    <3>3. keys' \in [NodeIds -> KeyEntry]
      BY <3>1, <3>2, AddedType
    <3> QED BY <2>2, <3>3 DEF PeerConnected, TypeOK, NotAhead, handlerVars, history
  <2>3. CASE Close(c)
    BY <2>3 DEF Close, TypeOK, NotAhead, engineVars, handlerVars, history
  <2>4. CASE RemovePeer(c)
    BY <2>4 DEF RemovePeer, TypeOK, NotAhead, engineVars, handlerVars, history
  <2>5. ASSUME NEW k \in Keys, LearnFromExchange(c, k) PROVE TypeOK' /\ NotAhead'
    <3>1. keys' \in [NodeIds -> KeyEntry]
      BY <2>5, AddedType DEF LearnFromExchange
    <3> QED BY <2>5, <3>1 DEF LearnFromExchange, TypeOK, NotAhead, handlerVars, history
  <2> QED BY <1>4, <2>1, <2>2, <2>3, <2>4, <2>5 DEF Connection
<1>5. ASSUME NEW c \in Conns, HandleIncoming(c) PROVE TypeOK' /\ NotAhead'
  <2>1. ASSUME NEW e \in Received, Receive(c, e) PROVE TypeOK' /\ NotAhead'
    BY <2>1 DEF Receive, TypeOK, NotAhead, Steps, engineVars, history
  <2>2. CASE Lookup(c)
    <3>1. env[c] \in Envelope
      BY <2>2 DEF Lookup, At, TypeOK
    <3>2. Goto(c, "allow") \/ Goto(c, "learn") \/ Return(c)
      BY <2>2 DEF Lookup
    <3>3. UNCHANGED <<clock, seen, keys, limiter, conn, bcast, out, history>>
      BY <2>2 DEF Lookup, engineVars
    <3> QED BY <3>1, <3>2, <3>3, ZenonT(60) DEF Goto, Return, TypeOK, NotAhead, Steps, history
  <2>3. CASE Learn(c)
    <3>1. env[c] \in Envelope
      BY <2>3 DEF Learn, At, TypeOK
    <3>2. keys' \in [NodeIds -> KeyEntry]
      BY <2>3, <3>1, AddedType DEF Learn, Envelope
    <3> QED BY <2>3, <3>1, <3>2 DEF Learn, Goto, TypeOK, NotAhead, Steps, history
  <2>4. CASE Relookup(c)
    <3>1. env[c] \in Envelope
      BY <2>4 DEF Relookup, At, TypeOK
    <3>2. Goto(c, "allow") \/ Return(c)
      BY <2>4 DEF Relookup
    <3>3. UNCHANGED <<clock, seen, keys, limiter, conn, bcast, out, history>>
      BY <2>4 DEF Relookup, engineVars
    <3> QED BY <3>1, <3>2, <3>3, ZenonT(60) DEF Goto, Return, TypeOK, NotAhead, Steps, history
  <2>5. CASE Allow(c)
    <3>1. env[c] \in Envelope /\ env[c].sender \in NodeIds
      BY <2>5 DEF Allow, At, TypeOK, Envelope
    <3>2. Tokens(env[c].sender) \in 0 .. Burst
      BY <3>1, TokensType DEF NotAhead
    <3> DEFINE s == env[c].sender
    <3> DEFINE t == Tokens(s)
    <3>3. PICK left \in 0 .. Burst :
            limiter' = [limiter EXCEPT ![s] = [tokens |-> left, lastCheck |-> clock]]
      <4>1. CASE t >= TokenCost
        <5>1. t - TokenCost \in 0 .. Burst
          BY <3>2, <4>1
        <5> QED BY <2>5, <4>1, <5>1 DEF Allow
      <4>2. CASE ~(t >= TokenCost)
        BY <2>5, <3>2, <4>2 DEF Allow
      <4> QED BY <4>1, <4>2
    <3>4. limiter' \in [NodeIds -> SenderState]
      <4>1. [tokens |-> left, lastCheck |-> clock] \in SenderState
        BY <3>3 DEF TypeOK, SenderState
      <4> QED BY <3>1, <3>3, <4>1 DEF TypeOK
    <3>5. spent' \in [NodeIds -> Nat]
      BY <2>5, <3>1 DEF Allow, TypeOK
    <3>6. \A n \in NodeIds : limiter'[n].lastCheck <= clock
      <4>1. \A n \in NodeIds : limiter[n].lastCheck <= clock /\ clock \in Int
        BY DEF TypeOK, NotAhead
      <4>2. \A n \in NodeIds :
              limiter'[n] = IF n = s THEN [tokens |-> left, lastCheck |-> clock] ELSE limiter[n]
        BY <3>1, <3>3 DEF TypeOK
      <4> QED BY <4>1, <4>2
    <3> HIDE DEF s, t
    <3> QED BY <2>5, <3>1, <3>4, <3>5, <3>6, ZenonT(60)
            DEF Allow, Goto, Return, TypeOK, NotAhead, Steps
  <2>6. CASE Check(c)
    <3>1. env[c] \in Envelope /\ env[c].id \in MsgIds
      BY <2>6 DEF Check, At, TypeOK, Envelope
    <3>2. /\ seen' \in [MsgIds -> Never .. MaxClock]
          /\ markedAt' \in [MsgIds -> Never .. MaxClock]
          /\ \A x \in MsgIds : seen'[x] <= clock /\ markedAt'[x] <= clock
      BY <1>0, <2>6, <3>1 DEF Check
    <3>3. accepted' \in SUBSET [from: NodeIds, env: Envelope]
      BY <2>6, <3>1 DEF Check, TypeOK
    <3> QED BY <2>6, <3>1, <3>2, <3>3, ZenonT(60)
            DEF Check, Goto, Return, TypeOK, NotAhead, Steps
  <2>7. CASE Deliver(c)
    <3>1. env[c] \in Envelope
      BY <2>7 DEF Deliver, At, TypeOK
    <3>2. WithHops(env[c], Decrement(env[c].hops)) \in Envelope
      BY <3>1 DEF Envelope, Decrement, WithHops
    <3>3. env' \in [Conns -> Envelope \cup {NoEnv}]
      BY <2>7, <3>1, <3>2 DEF Deliver, Return, TypeOK
    <3>4. \A d \in Conns : pc'[d] # "idle" => env'[d] \in Envelope
      BY <2>7, <3>1, <3>2 DEF Deliver, Return, TypeOK
    <3> QED BY <2>7, <3>1, <3>3, <3>4
            DEF Deliver, Return, TypeOK, NotAhead, Steps, engineVars
  <2>8. CASE Forward(c)
    BY <2>8 DEF Forward, At, Candidates, TypeOK, NotAhead, Steps, engineVars, history
  <2>9. CASE ForwardDone(c)
    BY <2>9 DEF ForwardDone, Return, TypeOK, NotAhead, Steps, engineVars, history
  <2>10. ASSUME NEW d \in Conns, Send(c, d) PROVE TypeOK' /\ NotAhead'
    <3>1. env[c] \in Envelope
      BY <2>10 DEF Send, At, TypeOK
    <3>2. out' \in [Conns -> SUBSET Envelope]
      BY <2>10, <3>1 DEF Send, Queue, TypeOK
    <3> QED BY <2>10, <3>2 DEF Send, TypeOK, NotAhead, engineVars, history
  <2> QED BY <1>5, <2>1, <2>2, <2>3, <2>4, <2>5, <2>6, <2>7, <2>8, <2>9, <2>10
          DEF HandleIncoming
<1>6. CASE Broadcast
  <2>1. ASSUME NEW m \in OwnIds, BroadcastMark(m) PROVE TypeOK' /\ NotAhead'
    <3>1. /\ seen' \in [MsgIds -> Never .. MaxClock]
          /\ markedAt' \in [MsgIds -> Never .. MaxClock]
          /\ \A x \in MsgIds : seen'[x] <= clock /\ markedAt'[x] <= clock
      BY <1>0, <2>1 DEF BroadcastMark
    <3> QED BY <2>1, <3>1, OwnEnvelopeType
            DEF BroadcastMark, TypeOK, NotAhead, handlerVars
  <2>2. CASE BroadcastPeers
    BY <2>2 DEF BroadcastPeers, TypeOK, NotAhead, engineVars, handlerVars, history
  <2>3. CASE BroadcastDone
    BY <2>3 DEF BroadcastDone, Idle, TypeOK, NotAhead, engineVars, handlerVars, history
  <2>4. ASSUME NEW d \in Conns, BroadcastSend(d) PROVE TypeOK' /\ NotAhead'
    <3>1. bcast.env \in Envelope
      BY <2>4 DEF BroadcastSend, TypeOK
    <3>2. out' \in [Conns -> SUBSET Envelope]
      BY <2>4, <3>1 DEF BroadcastSend, Queue, TypeOK
    <3> QED BY <2>4, <3>2 DEF BroadcastSend, TypeOK, NotAhead, engineVars, handlerVars, history
  <2> QED BY <1>6, <2>1, <2>2, <2>3, <2>4 DEF Broadcast
<1>7. CASE UNCHANGED vars
  BY <1>7 DEF vars, TypeOK, NotAhead
<1> QED BY <1>1, <1>2, <1>3, <1>4, <1>5, <1>6, <1>7 DEF Next

\* Every variable keeps its type, for every instance.
THEOREM TypeCorrect == Spec => []TypeOK
<1>1. TypeOK /\ NotAhead /\ [Next]_vars => (TypeOK /\ NotAhead)'
  BY NextType
<1> QED BY <1>1, InitType, InitNotAhead, PTL DEF Spec

-----------------------------------------------------------------------------
(* The invariants behind the safety properties.                             *)

\* A key in the ring belongs to the node it is filed under.
KeyBinding ==
    \A n \in NodeIds :
        /\ keys[n].pub # NoKey => NodeIDOf[keys[n].pub] = n
        /\ keys[n].trust # Unlisted => keys[n].pub # NoKey

\* A goroutine about to learn a key has compared its hash to the sender id.
Learning ==
    \A c \in Conns : pc[c] = "learn" =>
        env[c].pubkey # NoKey /\ NodeIDOf[env[c].pubkey] = env[c].sender

\* Past step 3 the envelope in hand is signed by its sender.
Vetted ==
    /\ \A c \in Conns :
         pc[c] \in {"allow", "check", "deliver", "forward", "send"} => Signed(env[c])
    /\ \A a \in accepted : Signed(a.env)

\* The fanout goroutine has in hand an envelope it made itself.
Broadcasting ==
    bcast.step # "idle" =>
        bcast.env.id \in originated /\ bcast.env = OwnEnvelope(bcast.env.id)

\* What a goroutine delivers or relays was accepted on its connection, and the
\* handles it holds are not of the node the envelope came from.
Relaying ==
    \A c \in Conns :
        /\ pc[c] = "deliver" => [from |-> PeerOf[c], env |-> env[c]] \in accepted
        /\ pc[c] \in {"forward", "send"} =>
             /\ env[c].hops >= 1
             /\ [from |-> PeerOf[c], env |-> WithHops(env[c], env[c].hops + 1)] \in accepted
        /\ \A d \in targets[c] : PeerOf[d] # PeerOf[c]

\* The cache knows the last time an id was marked until the TTL has passed.
Marking ==
    \A m \in MsgIds :
        /\ seen[m] # Never => markedAt[m] = seen[m]
        /\ markedAt[m] # Never => seen[m] = markedAt[m] \/ clock > markedAt[m] + TTL

IndInv ==
    /\ TypeOK /\ NotAhead /\ KeyBinding /\ Learning /\ Vetted
    /\ Broadcasting /\ Relaying /\ Marking
    /\ Authentic /\ SeenOnlyAccepted /\ ForwardedFaithfully

\* Adding a key that belongs to its node keeps the ring bound.
LEMMA AddedBinding ==
    ASSUME TypeOK, KeyBinding, NEW k \in Keys, NEW t \in {0, 1},
           keys' = Added(NodeIDOf[k], k, t)
    PROVE  KeyBinding'
BY NodeAssumption DEF TypeOK, KeyEntry, KeyBinding, Added

\* A step keeps every key bound to the hash it is stored under, and keeps what
\* an auto-learning goroutine relies on (HandleIncoming step 2, KeyRing.Add).
LEMMA KeyStep ==
    TypeOK /\ KeyBinding /\ Learning /\ [Next]_vars => KeyBinding' /\ Learning'
<1> SUFFICES ASSUME TypeOK, KeyBinding, Learning, [Next]_vars
             PROVE  KeyBinding' /\ Learning'
  OBVIOUS
<1> USE NodeAssumption, WireAssumption
<1>1. CASE UNCHANGED <<keys, pc, env>>
  BY <1>1 DEF KeyBinding, Learning
<1>2. ASSUME NEW c \in Conns, Connection(c) PROVE KeyBinding' /\ Learning'
  <2>1. CASE PeerConnected(c)
    <3>1. PICK k \in Keys : keys' = Added(NodeIDOf[k], k, TrustDirectlyVerified)
      BY <2>1 DEF PeerConnected
    <3> QED BY <2>1, <3>1, AddedBinding DEF PeerConnected, Learning, handlerVars
  <2>2. ASSUME NEW k \in Keys, LearnFromExchange(c, k) PROVE KeyBinding' /\ Learning'
    BY <2>2, AddedBinding DEF LearnFromExchange, Learning, handlerVars
  <2>3. CASE AddPeer(c) \/ Close(c) \/ RemovePeer(c)
    BY <1>1, <2>3 DEF AddPeer, Close, RemovePeer, engineVars, handlerVars
  <2> QED BY <1>2, <2>1, <2>2, <2>3 DEF Connection
<1>3. ASSUME NEW c \in Conns, HandleIncoming(c) PROVE KeyBinding' /\ Learning'
  <2>1. ASSUME NEW e \in Received, Receive(c, e) PROVE KeyBinding' /\ Learning'
    BY <2>1 DEF Receive, TypeOK, KeyBinding, Learning, engineVars
  <2>2. CASE Lookup(c)
    <3>1. KeyBinding'
      BY <2>2 DEF Lookup, KeyBinding, engineVars
    <3>2. Learning'
      BY <2>2 DEF Lookup, Goto, Return, TypeOK, Learning
    <3> QED BY <3>1, <3>2
  <2>3. CASE Learn(c)
    <3>1. env[c].pubkey \in Keys /\ NodeIDOf[env[c].pubkey] = env[c].sender
      BY <2>3 DEF Learn, At, Learning, TypeOK, Envelope
    <3>2. KeyBinding'
      BY <2>3, <3>1, AddedBinding DEF Learn
    <3> QED BY <2>3, <3>2 DEF Learn, Goto, TypeOK, Learning
  <2>4. CASE Relookup(c)
    <3>1. Goto(c, "allow") \/ Return(c)
      BY <2>4 DEF Relookup
    <3> QED BY <2>4, <3>1 DEF Relookup, Goto, Return, TypeOK, KeyBinding, Learning, engineVars
  <2>5. CASE Allow(c)
    <3>1. Goto(c, "check") \/ Return(c)
      BY <2>5 DEF Allow
    <3> QED BY <2>5, <3>1 DEF Allow, Goto, Return, TypeOK, KeyBinding, Learning
  <2>6. CASE Check(c)
    <3>1. Goto(c, "deliver") \/ Return(c)
      BY <2>6 DEF Check
    <3> QED BY <2>6, <3>1 DEF Check, Goto, Return, TypeOK, KeyBinding, Learning
  <2>7. CASE Deliver(c)
    BY <2>7 DEF Deliver, Return, TypeOK, KeyBinding, Learning, engineVars
  <2>8. CASE Forward(c) \/ ForwardDone(c)
    BY <2>8 DEF Forward, ForwardDone, Return, TypeOK, KeyBinding, Learning, engineVars
  <2>9. ASSUME NEW d \in Conns, Send(c, d) PROVE KeyBinding' /\ Learning'
    BY <1>1, <2>9 DEF Send, engineVars
  <2> QED BY <1>3, <2>1, <2>2, <2>3, <2>4, <2>5, <2>6, <2>7, <2>8, <2>9
          DEF HandleIncoming
<1>4. CASE Tick \/ SeenCleanup \/ LimiterCleanup
  BY <1>1, <1>4 DEF Tick, SeenCleanup, LimiterCleanup, engineVars, handlerVars
<1>5. CASE Broadcast
  BY <1>1, <1>5 DEF Broadcast, BroadcastMark, BroadcastPeers, BroadcastSend,
     BroadcastDone, engineVars, handlerVars
<1>6. CASE UNCHANGED vars
  BY <1>1, <1>6 DEF vars
<1> QED BY <1>2, <1>3, <1>4, <1>5, <1>6 DEF Next

\* An envelope past the signature check stays vetted: its key was in the ring
\* when it was verified and the ring never changes a key (HandleIncoming step 3).
LEMMA VettedStep ==
    TypeOK /\ KeyBinding /\ Vetted /\ [Next]_vars => Vetted'
<1> SUFFICES ASSUME TypeOK, KeyBinding, Vetted, [Next]_vars PROVE Vetted'
  OBVIOUS
<1> USE NodeAssumption, WireAssumption
<1>1. CASE UNCHANGED <<pc, env, accepted>>
  BY <1>1 DEF Vetted, Signed
<1>2. ASSUME NEW c \in Conns, HandleIncoming(c) PROVE Vetted'
  <2>1. ASSUME NEW e \in Received, Receive(c, e) PROVE Vetted'
    BY <2>1 DEF Receive, TypeOK, Vetted, Signed, history
  <2>2. CASE Lookup(c)
    <3>1. env[c].sender \in NodeIds
      BY <2>2 DEF Lookup, At, TypeOK, Envelope
    <3>2. \/ Signed(env[c]) /\ Goto(c, "allow")
          \/ Goto(c, "learn")
          \/ Return(c)
      BY <2>2, <3>1 DEF Lookup, VerifyEnvelope, KeyBinding, Signed
    <3> QED BY <2>2, <3>2 DEF Lookup, Goto, Return, TypeOK, Vetted, Signed, history
  <2>3. CASE Learn(c)
    BY <2>3 DEF Learn, Goto, TypeOK, Vetted, Signed, history
  <2>4. CASE Relookup(c)
    <3>1. env[c].sender \in NodeIds
      BY <2>4 DEF Relookup, At, TypeOK, Envelope
    <3>2. (Signed(env[c]) /\ Goto(c, "allow")) \/ Return(c)
      BY <2>4, <3>1 DEF Relookup, VerifyEnvelope, KeyBinding, Signed
    <3> QED BY <2>4, <3>2 DEF Relookup, Goto, Return, TypeOK, Vetted, Signed, history
  <2>5. CASE Allow(c)
    <3>1. Signed(env[c])
      BY <2>5 DEF Allow, At, Vetted
    <3>2. Goto(c, "check") \/ Return(c)
      BY <2>5 DEF Allow
    <3> QED BY <2>5, <3>1, <3>2 DEF Allow, Goto, Return, TypeOK, Vetted, Signed
  <2>6. CASE Check(c)
    <3>1. Signed(env[c])
      BY <2>6 DEF Check, At, Vetted
    <3>2. /\ Goto(c, "deliver") \/ Return(c)
          /\ accepted' \subseteq accepted \cup {[from |-> PeerOf[c], env |-> env[c]]}
      BY <2>6 DEF Check
    <3> QED BY <3>1, <3>2 DEF Goto, Return, TypeOK, Vetted, Signed
  <2>7. CASE Deliver(c)
    <3>1. Signed(env[c])
      BY <2>7 DEF Deliver, At, Vetted
    <3>2. Signed(WithHops(env[c], Decrement(env[c].hops)))
      BY <3>1 DEF Signed, WithHops
    <3> QED BY <2>7, <3>1, <3>2 DEF Deliver, Return, TypeOK, Vetted, Signed
  <2>8. CASE Forward(c) \/ ForwardDone(c)
    BY <2>8 DEF Forward, ForwardDone, At, Return, TypeOK, Vetted, Signed, history
  <2>9. ASSUME NEW d \in Conns, Send(c, d) PROVE Vetted'
    BY <1>1, <2>9 DEF Send, history
  <2> QED BY <1>2, <2>1, <2>2, <2>3, <2>4, <2>5, <2>6, <2>7, <2>8, <2>9
          DEF HandleIncoming
<1>3. ASSUME NEW c \in Conns, Connection(c) PROVE Vetted'
  BY <1>1, <1>3 DEF Connection, AddPeer, PeerConnected, Close, RemovePeer,
     LearnFromExchange, handlerVars, history
<1>4. CASE Tick \/ SeenCleanup \/ LimiterCleanup
  BY <1>1, <1>4 DEF Tick, SeenCleanup, LimiterCleanup, handlerVars, history
<1>5. CASE Broadcast
  BY <1>1, <1>5 DEF Broadcast, BroadcastMark, BroadcastPeers, BroadcastSend,
     BroadcastDone, handlerVars, history
<1>6. CASE UNCHANGED vars
  BY <1>1, <1>6 DEF vars
<1> QED BY <1>2, <1>3, <1>4, <1>5, <1>6 DEF Next

\* The fanout goroutine holds an envelope of this node while it sends (Broadcast).
LEMMA BroadcastingStep == TypeOK /\ Broadcasting /\ [Next]_vars => Broadcasting'
<1> SUFFICES ASSUME TypeOK, Broadcasting, [Next]_vars PROVE Broadcasting'
  OBVIOUS
<1>1. CASE UNCHANGED <<bcast, originated>>
  BY <1>1 DEF Broadcasting, OwnEnvelope
<1>2. CASE Broadcast
  <2>1. ASSUME NEW m \in OwnIds, BroadcastMark(m) PROVE Broadcasting'
    BY <2>1 DEF BroadcastMark, Broadcasting, OwnEnvelope
  <2>2. CASE BroadcastPeers
    BY <2>2 DEF BroadcastPeers, Broadcasting, OwnEnvelope, history
  <2>3. ASSUME NEW d \in Conns, BroadcastSend(d) PROVE Broadcasting'
    BY <2>3 DEF BroadcastSend, Broadcasting, OwnEnvelope, history
  <2>4. CASE BroadcastDone
    BY <2>4 DEF BroadcastDone, Idle, Broadcasting
  <2> QED BY <1>2, <2>1, <2>2, <2>3, <2>4 DEF Broadcast
<1>3. ASSUME NEW c \in Conns, Connection(c) PROVE Broadcasting'
  BY <1>1, <1>3 DEF Connection, AddPeer, PeerConnected, Close, RemovePeer,
     LearnFromExchange, history
<1>4. ASSUME NEW c \in Conns, HandleIncoming(c) PROVE Broadcasting'
  BY <1>1, <1>4 DEF HandleIncoming, Receive, Lookup, Learn, Relookup, Allow, Check,
     Deliver, Forward, ForwardDone, Send, history
<1>5. CASE Tick \/ SeenCleanup \/ LimiterCleanup
  BY <1>1, <1>5 DEF Tick, SeenCleanup, LimiterCleanup, history
<1>6. CASE UNCHANGED vars
  BY <1>1, <1>6 DEF vars
<1> QED BY <1>2, <1>3, <1>4, <1>5, <1>6 DEF Next

\* Taking a hop off and putting it back gives the same envelope.
LEMMA HopRoundTrip ==
    ASSUME NEW e \in Envelope, e.hops > 1
    PROVE  /\ WithHops(e, Decrement(e.hops)).hops >= 1
           /\ WithHops(WithHops(e, Decrement(e.hops)),
                       WithHops(e, Decrement(e.hops)).hops + 1) = e
BY LimitAssumption DEF Envelope, WithHops, Decrement

\* A goroutine that forwards holds an accepted envelope less one hop, and handles
\* of other nodes than the one it came from (HandleIncoming step 7, forwardTo).
LEMMA RelayingStep == TypeOK /\ Relaying /\ [Next]_vars => Relaying'
<1> SUFFICES ASSUME TypeOK, Relaying, [Next]_vars PROVE Relaying'
  OBVIOUS
<1> USE NodeAssumption, WireAssumption
<1>1. CASE UNCHANGED <<pc, env, targets, accepted>>
  BY <1>1 DEF Relaying
<1>2. ASSUME NEW c \in Conns, HandleIncoming(c) PROVE Relaying'
  <2>1. ASSUME NEW e \in Received, Receive(c, e) PROVE Relaying'
    BY <2>1 DEF Receive, TypeOK, Relaying, history
  <2>2. ASSUME Goto(c, "allow") \/ Goto(c, "learn") \/ Goto(c, "relookup")
               \/ Goto(c, "check") \/ Return(c),
               accepted' = accepted
        PROVE  Relaying'
    BY <2>2 DEF Goto, Return, TypeOK, Relaying
  <2>3. CASE Lookup(c) \/ Learn(c) \/ Relookup(c)
    BY <2>2, <2>3 DEF Lookup, Learn, Relookup, history
  <2>4. CASE Allow(c)
    BY <2>2, <2>4 DEF Allow
  <2>5. CASE Check(c)
    <3>1. CASE Has(env[c].id)
      BY <2>2, <2>5, <3>1 DEF Check
    <3>2. CASE ~Has(env[c].id)
      BY <2>5, <3>2 DEF Check, Goto, TypeOK, Relaying
    <3> QED BY <3>1, <3>2
  <2>6. CASE Deliver(c)
    <3>1. env[c] \in Envelope /\ env[c].hops \in Nat
      BY LimitAssumption, <2>6 DEF Deliver, At, TypeOK, Envelope
    <3>2. CASE env[c].hops <= 1
      BY <2>2, <2>6, <3>2 DEF Deliver
    <3>3. CASE ~(env[c].hops <= 1)
      <4> DEFINE f == WithHops(env[c], Decrement(env[c].hops))
      <4>1. f.hops >= 1 /\ WithHops(f, f.hops + 1) = env[c]
        BY <3>1, <3>3, HopRoundTrip
      <4>2. [from |-> PeerOf[c], env |-> env[c]] \in accepted
        BY <2>6 DEF Deliver, At, Relaying
      <4>3. /\ env' = [env EXCEPT ![c] = f]
            /\ pc' = [pc EXCEPT ![c] = "forward"]
            /\ UNCHANGED <<targets, accepted>>
        BY <2>6, <3>3 DEF Deliver
      <4> HIDE DEF f
      <4> QED BY <4>1, <4>2, <4>3 DEF TypeOK, Relaying
    <3> QED BY <3>2, <3>3
  <2>7. CASE Forward(c)
    <3>1. PICK S \in SUBSET Candidates(c) :
            /\ pc' = [pc EXCEPT ![c] = "send"]
            /\ targets' = [targets EXCEPT ![c] = S]
            /\ env' = env
      BY <2>7 DEF Forward
    <3>2. \A d \in S : PeerOf[d] # PeerOf[c]
      BY <3>1 DEF Candidates
    <3>3. pc[c] = "forward" /\ accepted' = accepted
      BY <2>7 DEF Forward, At, history
    <3> QED BY <3>1, <3>2, <3>3 DEF TypeOK, Relaying
  <2>8. CASE ForwardDone(c)
    BY <2>2, <2>8 DEF ForwardDone, history
  <2>9. ASSUME NEW d \in Conns, Send(c, d) PROVE Relaying'
    BY <2>9 DEF Send, TypeOK, Relaying, history
  <2> QED BY <1>2, <2>1, <2>3, <2>4, <2>5, <2>6, <2>7, <2>8, <2>9 DEF HandleIncoming
<1>3. ASSUME NEW c \in Conns, Connection(c) PROVE Relaying'
  BY <1>1, <1>3 DEF Connection, AddPeer, PeerConnected, Close, RemovePeer,
     LearnFromExchange, handlerVars, history
<1>4. CASE Tick \/ SeenCleanup \/ LimiterCleanup
  BY <1>1, <1>4 DEF Tick, SeenCleanup, LimiterCleanup, handlerVars, history
<1>5. CASE Broadcast
  BY <1>1, <1>5 DEF Broadcast, BroadcastMark, BroadcastPeers, BroadcastSend,
     BroadcastDone, handlerVars, history
<1>6. CASE UNCHANGED vars
  BY <1>1, <1>6 DEF vars
<1> QED BY <1>2, <1>3, <1>4, <1>5, <1>6 DEF Next

\* The cache holds the time of the last marking, or that time is more than a TTL
\* ago (Seen.Check, cleanup).
LEMMA MarkingStep == TypeOK /\ NotAhead /\ Marking /\ [Next]_vars => Marking'
<1> SUFFICES ASSUME TypeOK, NotAhead, Marking, [Next]_vars PROVE Marking'
  OBVIOUS
<1> USE LimitAssumption
<1>1. CASE UNCHANGED <<seen, markedAt, clock>>
  BY <1>1 DEF Marking
<1>2. CASE Tick
  BY <1>2 DEF Tick, TypeOK, NotAhead, Marking, engineVars, history
<1>3. CASE SeenCleanup
  BY <1>3 DEF SeenCleanup, TypeOK, NotAhead, Marking, history
<1>4. ASSUME NEW m \in MsgIds, seen' = Marked(m), markedAt' = MarkedAt(m), clock' = clock
      PROVE  Marking'
  BY <1>4 DEF Marked, MarkedAt, Has, TypeOK, NotAhead, Marking
<1>5. ASSUME NEW c \in Conns, HandleIncoming(c) PROVE Marking'
  <2>1. CASE Check(c)
    <3>1. env[c].id \in MsgIds
      BY <2>1 DEF Check, At, TypeOK, Envelope
    <3> QED BY <1>4, <2>1, <3>1 DEF Check
  <2>2. CASE ~Check(c)
    BY <1>1, <1>5, <2>2 DEF HandleIncoming, Receive, Lookup, Learn, Relookup, Allow,
       Deliver, Forward, ForwardDone, Send, engineVars, history
  <2> QED BY <2>1, <2>2
<1>6. CASE Broadcast
  <2>1. ASSUME NEW m \in OwnIds, BroadcastMark(m) PROVE Marking'
    BY <1>4, <2>1, WireAssumption DEF BroadcastMark
  <2>2. ASSUME BroadcastPeers \/ BroadcastDone \/ \E d \in Conns : BroadcastSend(d)
        PROVE  Marking'
    BY <1>1, <2>2 DEF BroadcastPeers, BroadcastSend, BroadcastDone, engineVars, history
  <2> QED BY <1>6, <2>1, <2>2 DEF Broadcast
<1>7. ASSUME NEW c \in Conns, Connection(c) PROVE Marking'
  BY <1>1, <1>7 DEF Connection, AddPeer, PeerConnected, Close, RemovePeer,
     LearnFromExchange, engineVars, history
<1>8. CASE LimiterCleanup \/ UNCHANGED vars
  BY <1>1, <1>8 DEF LimiterCleanup, vars, history
<1> QED BY <1>2, <1>3, <1>5, <1>6, <1>7, <1>8 DEF Next

\* Delivering, forwarding and broadcasting keep Authentic.
LEMMA AuthenticStep ==
    TypeOK /\ Vetted /\ Broadcasting /\ Authentic /\ [Next]_vars => Authentic'
<1> SUFFICES ASSUME TypeOK, Vetted, Broadcasting, Authentic, [Next]_vars PROVE Authentic'
  OBVIOUS
<1> USE NodeAssumption, WireAssumption
<1>1. CASE UNCHANGED <<out, delivered>>
  BY <1>1 DEF Authentic, Signed
<1>2. ASSUME NEW d \in Conns, NEW e, Signed(e), Queue(d, e), delivered' = delivered
      PROVE  Authentic'
  BY <1>2 DEF Queue, TypeOK, Authentic, Signed
<1>3. ASSUME NEW c \in Conns, HandleIncoming(c) PROVE Authentic'
  <2>1. CASE Deliver(c)
    <3>1. Signed(env[c])
      BY <2>1 DEF Deliver, At, Vetted
    <3> QED BY <2>1, <3>1 DEF Deliver, Authentic, Signed
  <2>2. ASSUME NEW d \in Conns, Send(c, d) PROVE Authentic'
    <3>1. Signed(env[c])
      BY <2>2 DEF Send, At, Vetted
    <3> QED BY <1>2, <2>2, <3>1 DEF Send, history
  <2>3. ASSUME \/ \E e \in Received : Receive(c, e)
               \/ Lookup(c) \/ Learn(c) \/ Relookup(c) \/ Allow(c) \/ Check(c)
               \/ Forward(c) \/ ForwardDone(c)
        PROVE  Authentic'
    BY <1>1, <2>3 DEF Receive, Lookup, Learn, Relookup, Allow, Check, Forward,
       ForwardDone, history
  <2> QED BY <1>3, <2>1, <2>2, <2>3 DEF HandleIncoming
<1>4. CASE Broadcast
  <2>1. ASSUME NEW d \in Conns, BroadcastSend(d) PROVE Authentic'
    <3>1. Signed(bcast.env)
      BY <2>1 DEF BroadcastSend, Broadcasting, OwnEnvelope, Signed
    <3> QED BY <1>2, <2>1, <3>1 DEF BroadcastSend, history
  <2>2. ASSUME BroadcastPeers \/ BroadcastDone \/ \E m \in OwnIds : BroadcastMark(m)
        PROVE  Authentic'
    BY <1>1, <2>2 DEF BroadcastPeers, BroadcastDone, BroadcastMark, history
  <2> QED BY <1>4, <2>1, <2>2 DEF Broadcast
<1>5. ASSUME NEW c \in Conns, Connection(c) PROVE Authentic'
  BY <1>1, <1>5 DEF Connection, AddPeer, PeerConnected, Close, RemovePeer,
     LearnFromExchange, history
<1>6. CASE Tick \/ SeenCleanup \/ LimiterCleanup \/ UNCHANGED vars
  BY <1>1, <1>6 DEF Tick, SeenCleanup, LimiterCleanup, vars, history
<1> QED BY <1>3, <1>4, <1>5, <1>6 DEF Next

\* Marking an id in Check or in Broadcast keeps SeenOnlyAccepted.
LEMMA SeenStep ==
    TypeOK /\ Vetted /\ SeenOnlyAccepted /\ [Next]_vars => SeenOnlyAccepted'
<1> SUFFICES ASSUME TypeOK, Vetted, SeenOnlyAccepted, [Next]_vars PROVE SeenOnlyAccepted'
  OBVIOUS
<1> USE NodeAssumption, WireAssumption
<1>1. ASSUME \A m \in MsgIds : seen'[m] # Never => seen[m] # Never,
             UNCHANGED <<accepted, originated>>
      PROVE  SeenOnlyAccepted'
  BY <1>1 DEF SeenOnlyAccepted, Has, Signed
<1>2. ASSUME NEW c \in Conns, HandleIncoming(c) PROVE SeenOnlyAccepted'
  <2>1. CASE Check(c)
    <3>1. Signed(env[c]) /\ env[c].id \in MsgIds
      BY <2>1 DEF Check, At, Vetted, TypeOK, Envelope
    <3>2. CASE Has(env[c].id)
      BY <1>1, <2>1, <3>2 DEF Check, Marked
    <3>3. CASE ~Has(env[c].id)
      <4> DEFINE a == [from |-> PeerOf[c], env |-> env[c]]
      <4>1. a \in accepted' /\ a.env.id = env[c].id /\ Signed(a.env)
        BY <2>1, <3>1, <3>3 DEF Check
      <4>2. \A m \in MsgIds : m # env[c].id => seen'[m] = seen[m]
        BY <2>1, <3>3 DEF Check, Marked, TypeOK
      <4>3. accepted \subseteq accepted' /\ originated' = originated
        BY <2>1, <3>3 DEF Check
      <4> HIDE DEF a
      <4> QED BY <4>1, <4>2, <4>3 DEF SeenOnlyAccepted, Has, Signed
    <3> QED BY <3>2, <3>3
  <2>2. ASSUME \/ \E e \in Received : Receive(c, e)
               \/ Lookup(c) \/ Learn(c) \/ Relookup(c) \/ Allow(c) \/ Deliver(c)
               \/ Forward(c) \/ ForwardDone(c) \/ \E d \in Conns : Send(c, d)
        PROVE  SeenOnlyAccepted'
    BY <1>1, <2>2 DEF Receive, Lookup, Learn, Relookup, Allow, Deliver, Forward,
       ForwardDone, Send, engineVars, history
  <2> QED BY <1>2, <2>1, <2>2 DEF HandleIncoming
<1>3. CASE Broadcast
  <2>1. ASSUME NEW m \in OwnIds, BroadcastMark(m) PROVE SeenOnlyAccepted'
    BY <2>1 DEF BroadcastMark, Marked, TypeOK, SeenOnlyAccepted, Has, Signed
  <2>2. ASSUME BroadcastPeers \/ BroadcastDone \/ \E d \in Conns : BroadcastSend(d)
        PROVE  SeenOnlyAccepted'
    BY <1>1, <2>2 DEF BroadcastPeers, BroadcastDone, BroadcastSend, engineVars, history
  <2> QED BY <1>3, <2>1, <2>2 DEF Broadcast
<1>4. CASE SeenCleanup
  BY <1>1, <1>4 DEF SeenCleanup, history
<1>5. ASSUME NEW c \in Conns, Connection(c) PROVE SeenOnlyAccepted'
  BY <1>1, <1>5 DEF Connection, AddPeer, PeerConnected, Close, RemovePeer,
     LearnFromExchange, engineVars, history
<1>6. CASE Tick \/ LimiterCleanup \/ UNCHANGED vars
  BY <1>1, <1>6 DEF Tick, LimiterCleanup, vars, engineVars, history
<1> QED BY <1>2, <1>3, <1>4, <1>5, <1>6 DEF Next

\* Queueing on a connection keeps ForwardedFaithfully.
LEMMA ForwardStep ==
    TypeOK /\ Relaying /\ Broadcasting /\ ForwardedFaithfully /\ [Next]_vars
      => ForwardedFaithfully'
<1> SUFFICES ASSUME TypeOK, Relaying, Broadcasting, ForwardedFaithfully, [Next]_vars
             PROVE  ForwardedFaithfully'
  OBVIOUS
<1>1. ASSUME out' = out, accepted \subseteq accepted', originated \subseteq originated'
      PROVE  ForwardedFaithfully'
  BY <1>1 DEF ForwardedFaithfully, OwnEnvelope, WithHops
<1>2. ASSUME NEW d \in Conns, NEW e, Queue(d, e), UNCHANGED <<accepted, originated>>,
             \/ e.id \in originated /\ e = OwnEnvelope(e.id)
             \/ \E a \in accepted :
                  a.from # PeerOf[d] /\ e.hops >= 1 /\ a.env = WithHops(e, e.hops + 1)
      PROVE  ForwardedFaithfully'
  <2>1. \A x \in Conns : \A f \in out'[x] : f \in out[x] \/ (x = d /\ f = e)
    BY <1>2 DEF Queue, TypeOK
  <2> QED BY <1>2, <2>1 DEF ForwardedFaithfully
<1>3. ASSUME NEW c \in Conns, HandleIncoming(c) PROVE ForwardedFaithfully'
  <2>1. ASSUME NEW d \in Conns, Send(c, d) PROVE ForwardedFaithfully'
    <3> DEFINE a == [from |-> PeerOf[c], env |-> WithHops(env[c], env[c].hops + 1)]
    <3>1. /\ env[c].hops >= 1 /\ PeerOf[c] # PeerOf[d]
          /\ a \in accepted
      BY <2>1 DEF Send, At, Relaying
    <3>2. a.from = PeerOf[c] /\ a.env = WithHops(env[c], env[c].hops + 1)
      OBVIOUS
    <3>3. Queue(d, env[c]) /\ UNCHANGED <<accepted, originated>>
      BY <2>1 DEF Send, history
    <3> HIDE DEF a
    <3> QED BY <1>2, <3>1, <3>2, <3>3
  <2>2. CASE Check(c)
    BY <1>1, <2>2 DEF Check
  <2>3. ASSUME \/ \E e \in Received : Receive(c, e)
               \/ Lookup(c) \/ Learn(c) \/ Relookup(c) \/ Allow(c) \/ Deliver(c)
               \/ Forward(c) \/ ForwardDone(c)
        PROVE  ForwardedFaithfully'
    BY <1>1, <2>3 DEF Receive, Lookup, Learn, Relookup, Allow, Deliver, Forward,
       ForwardDone, history
  <2> QED BY <1>3, <2>1, <2>2, <2>3 DEF HandleIncoming
<1>4. CASE Broadcast
  <2>1. ASSUME NEW d \in Conns, BroadcastSend(d) PROVE ForwardedFaithfully'
    BY <1>2, <2>1 DEF BroadcastSend, Broadcasting, history
  <2>2. ASSUME BroadcastPeers \/ BroadcastDone \/ \E m \in OwnIds : BroadcastMark(m)
        PROVE  ForwardedFaithfully'
    BY <1>1, <2>2 DEF BroadcastPeers, BroadcastDone, BroadcastMark, history
  <2> QED BY <1>4, <2>1, <2>2 DEF Broadcast
<1>5. ASSUME NEW c \in Conns, Connection(c) PROVE ForwardedFaithfully'
  BY <1>1, <1>5 DEF Connection, AddPeer, PeerConnected, Close, RemovePeer,
     LearnFromExchange, history
<1>6. CASE Tick \/ SeenCleanup \/ LimiterCleanup \/ UNCHANGED vars
  BY <1>1, <1>6 DEF Tick, SeenCleanup, LimiterCleanup, vars, history
<1> QED BY <1>3, <1>4, <1>5, <1>6 DEF Next

\* The inductive invariant holds at the start.
LEMMA InitInd == Init => IndInv
<1> SUFFICES ASSUME Init PROVE IndInv
  OBVIOUS
<1>1. TypeOK /\ NotAhead
  BY InitType, InitNotAhead
<1>2. KeyBinding /\ Learning /\ Vetted /\ Relaying /\ Marking
  BY NodeAssumption DEF Init, NoEntry, KeyBinding, Learning, Vetted, Relaying, Marking
<1>3. Broadcasting /\ Authentic /\ SeenOnlyAccepted /\ ForwardedFaithfully
  BY DEF Init, Idle, Broadcasting, Authentic, SeenOnlyAccepted, Has, ForwardedFaithfully
<1> QED BY <1>1, <1>2, <1>3 DEF IndInv

\* Every step of the engine and of the transport keeps the inductive invariant.
LEMMA NextInd == IndInv /\ [Next]_vars => IndInv'
BY NextType, KeyStep, VettedStep, BroadcastingStep, RelayingStep, MarkingStep,
   AuthenticStep, SeenStep, ForwardStep DEF IndInv

\* The inductive invariant of the gossip engine holds in every reachable state.
THEOREM Invariance == Spec => []IndInv
BY InitInd, NextInd, PTL DEF Spec

-----------------------------------------------------------------------------
(* The safety properties.                                                   *)

\* Nothing is delivered or sent unless its sender signed it.
THEOREM AuthenticHolds == Spec => []Authentic
<1>1. IndInv => Authentic
  BY DEF IndInv
<1> QED BY <1>1, Invariance, PTL

\* The seen cache holds only ids of accepted or of own messages.
THEOREM SeenOnlyAcceptedHolds == Spec => []SeenOnlyAccepted
<1>1. IndInv => SeenOnlyAccepted
  BY DEF IndInv
<1> QED BY <1>1, Invariance, PTL

\* What is relayed was accepted elsewhere with exactly one hop more.
THEOREM ForwardedFaithfullyHolds == Spec => []ForwardedFaithfully
<1>1. IndInv => ForwardedFaithfully
  BY DEF IndInv
<1> QED BY <1>1, Invariance, PTL

\* An id is newly marked only if it never was or more than a TTL ago.
LEMMA MarkStep ==
    ASSUME IndInv, [Next]_vars, NEW m \in MsgIds,
           markedAt'[m] # markedAt[m], markedAt[m] # Never
    PROVE  markedAt'[m] > markedAt[m] + TTL
<1> USE LimitAssumption DEF IndInv
<1>1. ASSUME NEW x \in MsgIds, markedAt' = MarkedAt(x)
      PROVE  markedAt'[m] > markedAt[m] + TTL
  <2>1. x = m /\ ~Has(m) /\ markedAt'[m] = clock
    BY <1>1 DEF MarkedAt, TypeOK
  <2> QED BY <2>1 DEF Has, Marking, TypeOK
<1>2. markedAt' # markedAt
  OBVIOUS
<1>3. CASE \E c \in Conns : HandleIncoming(c)
  <2>1. PICK c \in Conns : Check(c)
    BY <1>2, <1>3 DEF HandleIncoming, Receive, Lookup, Learn, Relookup, Allow,
       Deliver, Forward, ForwardDone, Send, history
  <2>2. env[c].id \in MsgIds
    BY <2>1 DEF Check, At, TypeOK, Envelope
  <2> QED BY <1>1, <2>1, <2>2 DEF Check
<1>4. CASE Broadcast
  <2>1. PICK x \in OwnIds : BroadcastMark(x)
    BY <1>2, <1>4 DEF Broadcast, BroadcastPeers, BroadcastDone, BroadcastSend, history
  <2> QED BY <1>1, <2>1, WireAssumption DEF BroadcastMark
<1>5. CASE \E c \in Conns : Connection(c)
  BY <1>2, <1>5 DEF Connection, AddPeer, PeerConnected, Close, RemovePeer,
     LearnFromExchange, history
<1>6. CASE Tick \/ SeenCleanup \/ LimiterCleanup \/ UNCHANGED vars
  BY <1>2, <1>6 DEF Tick, SeenCleanup, LimiterCleanup, vars, history
<1> QED BY <1>3, <1>4, <1>5, <1>6 DEF Next

\* At most one acceptance of an id per TTL, whatever the interleaving.
THEOREM AcceptOncePerTTLHolds == Spec => AcceptOncePerTTL
<1>1. IndInv /\ [Next]_vars =>
        [\A m \in MsgIds : markedAt'[m] # markedAt[m] /\ markedAt[m] # Never
           => markedAt'[m] > markedAt[m] + TTL]_vars
  BY MarkStep
<1> QED BY <1>1, Invariance, PTL DEF Spec, AcceptOncePerTTL

\* No step weakens or replaces a key in the ring.
LEMMA TrustStep ==
    ASSUME IndInv, [Next]_vars, NEW n \in NodeIds, keys[n].trust # Unlisted
    PROVE  keys'[n].trust <= keys[n].trust /\ keys'[n].pub = keys[n].pub
<1> USE NodeAssumption DEF IndInv
<1>0. KeyBinding'
  BY KeyStep
<1>1. ASSUME NEW x \in NodeIds, NEW k \in Keys, NEW t \in {0, 1}, keys' = Added(x, k, t)
      PROVE  keys'[n].trust <= keys[n].trust /\ keys'[n].pub = keys[n].pub
  <2>1. keys[n].trust \in 0 .. 2 /\ keys[n].pub \in Keys /\ NodeIDOf[keys[n].pub] = n
    BY DEF TypeOK, KeyEntry, KeyBinding
  <2>2. CASE keys' = keys
    BY <2>1, <2>2
  <2>3. CASE keys' # keys /\ x # n
    BY <1>1, <2>1, <2>3 DEF Added, TypeOK
  <2>4. CASE keys' # keys /\ x = n
    <3>1. keys'[n] = [pub |-> k, trust |-> t] /\ t < keys[n].trust
      BY <1>1, <2>1, <2>4 DEF Added, TypeOK
    <3>2. NodeIDOf[k] = n
      BY <1>0, <3>1 DEF KeyBinding
    <3> QED BY <2>1, <3>1, <3>2
  <2> QED BY <2>2, <2>3, <2>4
<1>2. CASE keys' = keys
  BY <1>2 DEF TypeOK, KeyEntry
<1>3. ASSUME NEW c \in Conns, Connection(c), keys' # keys
      PROVE  keys'[n].trust <= keys[n].trust /\ keys'[n].pub = keys[n].pub
  <2>1. PeerConnected(c) \/ \E k \in Keys : LearnFromExchange(c, k)
    BY <1>3 DEF Connection, AddPeer, Close, RemovePeer, engineVars
  <2> QED BY <1>1, <2>1 DEF PeerConnected, LearnFromExchange
<1>4. ASSUME NEW c \in Conns, HandleIncoming(c), keys' # keys
      PROVE  keys'[n].trust <= keys[n].trust /\ keys'[n].pub = keys[n].pub
  <2>1. Learn(c)
    BY <1>4 DEF HandleIncoming, Receive, Lookup, Relookup, Allow, Check,
       Deliver, Forward, ForwardDone, Send, engineVars
  <2>2. env[c].sender \in NodeIds /\ env[c].pubkey \in Keys
    BY <2>1 DEF Learn, At, TypeOK, Envelope, Learning
  <2> QED BY <1>1, <2>1, <2>2 DEF Learn
<1>5. ASSUME Broadcast \/ Tick \/ SeenCleanup \/ LimiterCleanup \/ UNCHANGED vars
      PROVE  keys' = keys
  BY <1>5 DEF Broadcast, BroadcastMark, BroadcastPeers, BroadcastSend, BroadcastDone,
     Tick, SeenCleanup, LimiterCleanup, vars, engineVars
<1> QED BY <1>2, <1>3, <1>4, <1>5 DEF Next

\* Trust only ever becomes stronger and keys are never replaced.
THEOREM TrustNeverWeakenedHolds == Spec => TrustNeverWeakened
<1>1. IndInv /\ [Next]_vars =>
        [\A n \in NodeIds : keys[n].trust # Unlisted =>
           keys'[n].trust <= keys[n].trust /\ keys'[n].pub = keys[n].pub]_vars
  BY TrustStep
<1> QED BY <1>1, Invariance, PTL DEF Spec, TrustNeverWeakened

\* No step lets a budget grow by more than the time it takes.
LEMMA BudgetStep ==
    ASSUME IndInv, [Next]_vars, NEW s \in NodeIds
    PROVE  (spent[s] + Tokens(s))' - spent[s] - Tokens(s) <= clock' - clock
<1> USE LimitAssumption DEF IndInv
<1>0. /\ limiter[s].lastCheck \in Int /\ limiter[s].tokens \in 0 .. Burst
      /\ limiter[s].lastCheck >= Never /\ limiter[s].lastCheck <= clock
      /\ clock \in Nat /\ spent[s] \in Nat
      /\ Tokens(s) \in 0 .. Burst
  BY TokensType DEF TypeOK, SenderState, NotAhead
<1>1. CASE UNCHANGED <<limiter, spent, clock>>
  BY <1>0, <1>1 DEF Tokens
<1>2. CASE Tick
  BY <1>0, <1>2 DEF Tick, Tokens, engineVars, history
<1>3. CASE LimiterCleanup
  <2>1. clock' = clock /\ spent' = spent
    BY <1>3 DEF LimiterCleanup, history
  <2>2. CASE limiter[s].lastCheck < clock - LimiterTTL
    <3>1. limiter'[s] = NoSender
      BY <1>3, <2>2 DEF LimiterCleanup
    <3>2. Tokens(s) = Burst /\ Tokens(s)' = Burst
      BY <1>0, <2>1, <2>2, <3>1 DEF Tokens, NoSender
    <3> QED BY <1>0, <2>1, <3>2
  <2>3. CASE ~(limiter[s].lastCheck < clock - LimiterTTL)
    <3>1. limiter'[s] = limiter[s]
      BY <1>3, <2>3 DEF LimiterCleanup
    <3> QED BY <1>0, <2>1, <3>1 DEF Tokens
  <2> QED BY <2>2, <2>3
<1>4. ASSUME NEW c \in Conns, Allow(c)
      PROVE  (spent[s] + Tokens(s))' - spent[s] - Tokens(s) <= clock' - clock
  <2>1. clock' = clock /\ env[c].sender \in NodeIds
    BY <1>4 DEF Allow, At, TypeOK, Envelope
  <2>2. CASE s # env[c].sender
    <3>1. limiter'[s] = limiter[s] /\ spent'[s] = spent[s]
      BY <1>4, <2>1, <2>2 DEF Allow, TypeOK
    <3> QED BY <1>0, <2>1, <3>1 DEF Tokens
  <2>3. CASE s = env[c].sender /\ Tokens(s) >= TokenCost
    <3>1. /\ limiter'[s] = [tokens |-> Tokens(s) - TokenCost, lastCheck |-> clock]
          /\ spent'[s] = spent[s] + TokenCost
      BY <1>4, <2>1, <2>3 DEF Allow, TypeOK
    <3>2. Tokens(s)' = Tokens(s) - TokenCost
      <4>1. Tokens(s) - TokenCost <= Burst /\ clock' = clock /\ clock # Never
        BY <1>0, <2>1
      <4>2. limiter'[s].tokens = Tokens(s) - TokenCost /\ limiter'[s].lastCheck = clock
        BY <3>1
      <4>3. Tokens(s)' = IF limiter'[s].lastCheck = Never
                            \/ limiter'[s].tokens + (clock' - limiter'[s].lastCheck) > Burst
                         THEN Burst
                         ELSE limiter'[s].tokens + (clock' - limiter'[s].lastCheck)
        BY DEF Tokens
      <4> HIDE DEF IndInv
      <4> QED BY <1>0, <4>1, <4>2, <4>3
    <3> QED BY <1>0, <2>1, <3>1, <3>2
  <2>4. CASE s = env[c].sender /\ ~(Tokens(s) >= TokenCost)
    <3>1. /\ limiter'[s] = [tokens |-> Tokens(s), lastCheck |-> clock]
          /\ spent'[s] = spent[s]
      BY <1>4, <2>1, <2>4 DEF Allow, TypeOK
    <3>2. Tokens(s)' = Tokens(s)
      <4>1. limiter'[s].tokens = Tokens(s) /\ limiter'[s].lastCheck = clock
        BY <3>1
      <4>2. Tokens(s)' = IF limiter'[s].lastCheck = Never
                            \/ limiter'[s].tokens + (clock' - limiter'[s].lastCheck) > Burst
                         THEN Burst
                         ELSE limiter'[s].tokens + (clock' - limiter'[s].lastCheck)
        BY DEF Tokens
      <4> QED BY <1>0, <2>1, <4>1, <4>2
    <3> QED BY <1>0, <2>1, <3>1, <3>2
  <2> QED BY <2>2, <2>3, <2>4
<1>5. ASSUME NEW c \in Conns, HandleIncoming(c), ~Allow(c)
      PROVE  UNCHANGED <<limiter, spent, clock>>
  BY <1>5 DEF HandleIncoming, Receive, Lookup, Learn, Relookup, Check, Deliver,
     Forward, ForwardDone, Send, engineVars, history
<1>6. ASSUME NEW c \in Conns, Connection(c) PROVE UNCHANGED <<limiter, spent, clock>>
  BY <1>6 DEF Connection, AddPeer, PeerConnected, Close, RemovePeer,
     LearnFromExchange, engineVars, history
<1>7. ASSUME Broadcast \/ SeenCleanup \/ UNCHANGED vars
      PROVE  UNCHANGED <<limiter, spent, clock>>
  BY <1>7 DEF Broadcast, BroadcastMark, BroadcastPeers, BroadcastSend, BroadcastDone,
     SeenCleanup, vars, engineVars, history
<1> QED BY <1>1, <1>2, <1>3, <1>4, <1>5, <1>6, <1>7 DEF Next

\* In every interval a sender is granted at most the burst plus the refill.
THEOREM BudgetNeverGrowsHolds == Spec => BudgetNeverGrows
<1>1. IndInv /\ [Next]_vars =>
        [\A s \in NodeIds :
           (spent[s] + Tokens(s))' - spent[s] - Tokens(s) <= clock' - clock]_vars
  BY BudgetStep
<1> QED BY <1>1, Invariance, PTL DEF Spec, BudgetNeverGrows
=============================================================================
