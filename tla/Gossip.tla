------------------------------- MODULE Gossip -------------------------------
(***************************************************************************)
(* The gossip engine of one node (internal/gossip), together with the part *)
(* of the transport that feeds it.  Every connection has a receive         *)
(* goroutine that calls HandleIncoming; these goroutines run concurrently  *)
(* with each other, with the fanout goroutine that calls Broadcast, with   *)
(* the connection goroutines that add and remove peers and their keys, and *)
(* with the two cleanup loops.  The seen cache, the keyring, the rate      *)
(* limiter and the peer map each have their own lock, so one action here   *)
(* is one critical section of the code: everything between two lock        *)
(* acquisitions of HandleIncoming may interleave with the others.          *)
(*                                                                         *)
(* Data are abstracted to what the properties tell apart.  A signature is  *)
(* the key that made it; sha256 is the injective map NodeIDOf; time is     *)
(* counted in ticks, a token of the rate limiter costs TokenCost ticks of  *)
(* refill, and amounts of tokens are counted in ticks as well, so that     *)
(* fractional tokens are whole numbers.                                    *)
(***************************************************************************)
EXTENDS Integers, FiniteSets

CONSTANTS
    NodeIds,    \* node identifiers
    Self,       \* the identifier of this node
    Keys,       \* ed25519 public keys
    SelfKey,    \* the key of this node
    NoKey,      \* a missing, malformed or unverifiable key or signature
    NodeIDOf,   \* hex(sha256(key)), as a function on Keys
    Conns,      \* Peer objects: one per connection that completed the hello
    PeerOf,     \* the node at the other end of a connection
    MsgIds,     \* message identifiers
    OwnIds,     \* those this node's uuid generator produces
    Received,   \* envelopes other nodes may put on the wire
    NoEnv,      \* no envelope in hand
    MaxPeers,   \* network.max_peers; 0 is no limit
    Fanout,     \* e.fanout
    MaxHops,    \* e.maxHops
    MaxUint,    \* largest value of the uint32 hop_count
    TTL,        \* SeenCache.ttl, in ticks
    TokenCost,  \* ticks it takes to earn one token
    Burst,      \* RateLimiter.burst, in ticks of refill
    LimiterTTL, \* age at which an idle limiter entry is dropped, in ticks
    MaxClock    \* bound on the clock

Never == -1

\* TrustLevel: a smaller number is a stronger trust; the third value stands
\* for a node that has no entry in the map, which every level beats.
TrustDirectlyVerified == 0
TrustGossipLearned == 1
Unlisted == 2

\* What HandleIncoming looks at: the identifiers, the key in sender_pubkey,
\* the key that signed, the hop count, whether the size checks 0a to 0c pass,
\* and what the registered handlers make of type and payload.
Envelope == [id: MsgIds, sender: NodeIds, pubkey: Keys \cup {NoKey},
             sig: Keys \cup {NoKey}, hops: 0 .. MaxUint,
             wellFormed: BOOLEAN, kind: {"chat", "garbled", "other"}]

\* The envelope e with another hop count.
WithHops(e, h) ==
    [id |-> e.id, sender |-> e.sender, pubkey |-> e.pubkey, sig |-> e.sig,
     hops |-> h, wellFormed |-> e.wellFormed, kind |-> e.kind]

KeyEntry == [pub: Keys \cup {NoKey}, trust: {0, 1, 2}]
NoEntry == [pub |-> NoKey, trust |-> Unlisted]

SenderState == [tokens: 0 .. Burst, lastCheck: Never .. MaxClock]
NoSender == [tokens |-> 0, lastCheck |-> Never]

ASSUME NodeAssumption ==
    /\ Self \in NodeIds /\ SelfKey \in Keys /\ NoKey \notin Keys
    /\ NodeIDOf \in [Keys -> NodeIds]
    /\ NodeIDOf[SelfKey] = Self
    /\ \A k, l \in Keys : NodeIDOf[k] = NodeIDOf[l] => k = l
    /\ PeerOf \in [Conns -> {NodeIDOf[k] : k \in Keys}]

\* Nobody else can sign with this node's key.
ASSUME WireAssumption ==
    /\ OwnIds \subseteq MsgIds
    /\ Received \subseteq Envelope
    /\ NoEnv \notin Envelope
    /\ \A e \in Received : e.sig = SelfKey => e.id \in OwnIds /\ e.sender = Self

\* burst is twice the rate, so at least one token, and the five minutes after
\* which cleanup drops an entry are longer than a refill of the whole bucket.
ASSUME LimitAssumption ==
    /\ MaxPeers \in Nat /\ Fanout \in Nat /\ MaxUint \in Nat /\ MaxHops \in 1 .. MaxUint
    /\ TTL \in Nat /\ MaxClock \in Nat
    /\ TokenCost \in Nat \ {0} /\ Burst \in Nat /\ Burst >= TokenCost
    /\ LimiterTTL \in Nat /\ LimiterTTL >= Burst

VARIABLES
    clock,      \* the monotonic clock
    seen,       \* SeenCache.entries: when an id was marked, or Never
    keys,       \* KeyRing.keys
    limiter,    \* RateLimiter.senders
    conn,       \* life of each connection in the manager
    pc,         \* where the receive goroutine of a connection is
    env,        \* the envelope it is handling
    targets,    \* handles it has still to send to
    bcast,      \* the fanout goroutine: its step, envelope and handles
    out,        \* envelopes SendRaw has queued on each connection
    \* history
    originated, \* ids this node has broadcast
    accepted,   \* envelopes that passed every check, and where from
    markedAt,   \* when each id was last newly marked as seen
    delivered,  \* envelopes handed to the local hub
    spent       \* tokens each sender was granted so far, in ticks

engineVars == <<seen, keys, limiter>>
handlerVars == <<pc, env, targets>>
history == <<originated, accepted, markedAt, delivered, spent>>
vars == <<clock, seen, keys, limiter, conn, pc, env, targets, bcast, out,
          originated, accepted, markedAt, delivered, spent>>

Idle == [step |-> "idle", env |-> NoEnv, targets |-> {}]

Init ==
    /\ clock = 0
    /\ seen = [m \in MsgIds |-> Never]
    /\ keys = [n \in NodeIds |->
                 IF n = Self THEN [pub |-> SelfKey, trust |-> TrustDirectlyVerified]
                             ELSE NoEntry]
    /\ limiter = [n \in NodeIds |-> NoSender]
    /\ conn = [c \in Conns |-> "new"]
    /\ pc = [c \in Conns |-> "idle"]
    /\ env = [c \in Conns |-> NoEnv]
    /\ targets = [c \in Conns |-> {}]
    /\ bcast = Idle
    /\ out = [c \in Conns |-> {}]
    /\ originated = {}
    /\ accepted = {}
    /\ markedAt = [m \in MsgIds |-> Never]
    /\ delivered = {}
    /\ spent = [n \in NodeIds |-> 0]

-----------------------------------------------------------------------------
(* SeenCache, KeyRing and RateLimiter.                                      *)

Has(m) == seen[m] # Never

\* The cache after Check(m), which tests and marks under one lock.
Marked(m) == IF Has(m) THEN seen ELSE [seen EXCEPT ![m] = clock]
MarkedAt(m) == IF Has(m) THEN markedAt ELSE [markedAt EXCEPT ![m] = clock]

\* Fault: the newest key wins whatever its trust.
AddedLast(n, k, trust) == [keys EXCEPT ![n] = [pub |-> k, trust |-> trust]]

\* The keyring after Add(n, k, trust): an entry of the same or of a stronger
\* trust stays.
Added(n, k, trust) ==
    IF trust >= keys[n].trust
    THEN keys
    ELSE [keys EXCEPT ![n] = [pub |-> k, trust |-> trust]]

\* The tokens sender s has now: what is left plus the refill since the last
\* check, at most the burst; a sender without an entry has the whole burst.
Tokens(s) ==
    IF limiter[s].lastCheck = Never
       \/ limiter[s].tokens + (clock - limiter[s].lastCheck) > Burst
    THEN Burst
    ELSE limiter[s].tokens + (clock - limiter[s].lastCheck)

\* cleanup of the seen cache drops what is older than the ttl.
SeenCleanup ==
    /\ seen' = [m \in MsgIds |-> IF seen[m] < clock - TTL THEN Never ELSE seen[m]]
    /\ UNCHANGED <<clock, keys, limiter, conn, handlerVars, bcast, out, history>>

\* Fault: cleanup drops every sender.
LimiterCleanupAll ==
    /\ limiter' = [n \in NodeIds |-> NoSender]
    /\ UNCHANGED <<clock, seen, keys, conn, handlerVars, bcast, out, history>>

\* cleanup of the rate limiter drops senders not heard of for five minutes.
LimiterCleanup ==
    /\ limiter' = [n \in NodeIds |->
                     IF limiter[n].lastCheck < clock - LimiterTTL
                     THEN NoSender ELSE limiter[n]]
    /\ UNCHANGED <<clock, seen, keys, conn, handlerVars, bcast, out, history>>

Tick ==
    /\ clock < MaxClock
    /\ clock' = clock + 1
    /\ UNCHANGED <<engineVars, conn, handlerVars, bcast, out, history>>

-----------------------------------------------------------------------------
(* The connections as the engine meets them.                                *)

InMap(c) == conn[c] \in {"added", "up", "closing"}

\* addPeer: a second connection to a node that is in the map is closed, and so
\* is one that finds the map full.
AddPeer(c) ==
    /\ conn[c] = "new"
    /\ conn' = [conn EXCEPT ![c] =
                  IF \/ \E d \in Conns : InMap(d) /\ PeerOf[d] = PeerOf[c]
                     \/ MaxPeers > 0 /\ Cardinality({d \in Conns : InMap(d)}) >= MaxPeers
                  THEN "gone" ELSE "added"]
    /\ UNCHANGED <<clock, engineVars, handlerVars, bcast, out, history>>

\* onPeerConnected puts the key verified by the hello exchange in the keyring,
\* then Run starts the loops.  The peer has been in the map since addPeer.
PeerConnected(c) ==
    /\ conn[c] = "added"
    /\ conn' = [conn EXCEPT ![c] = "up"]
    /\ \E k \in Keys :
         /\ NodeIDOf[k] = PeerOf[c]
         /\ keys' = Added(PeerOf[c], k, TrustDirectlyVerified)
    /\ UNCHANGED <<clock, seen, limiter, handlerVars, bcast, out, history>>

\* Either loop fails, or the manager stops: the connection is closed.
Close(c) ==
    /\ conn[c] = "up"
    /\ conn' = [conn EXCEPT ![c] = "closing"]
    /\ UNCHANGED <<clock, engineVars, handlerVars, bcast, out, history>>

\* Run has seen both loops end; removePeer.  Handles to the connection that
\* others hold stay usable: SendRaw queues on a channel nobody reads.
RemovePeer(c) ==
    /\ conn[c] = "closing" /\ pc[c] = "idle"
    /\ conn' = [conn EXCEPT ![c] = "gone"]
    /\ UNCHANGED <<clock, engineVars, handlerVars, bcast, out, history>>

\* A PeerExchange from c names another node with the key its id is made of.
LearnFromExchange(c, k) ==
    /\ conn[c] = "up" /\ pc[c] = "idle"
    /\ NodeIDOf[k] # Self
    /\ keys' = Added(NodeIDOf[k], k, TrustGossipLearned)
    /\ UNCHANGED <<clock, seen, limiter, conn, handlerVars, bcast, out, history>>

-----------------------------------------------------------------------------
(* HandleIncoming, one action per critical section.                         *)

At(c, step) == pc[c] = step
Goto(c, step) ==
    /\ pc' = [pc EXCEPT ![c] = step]
    /\ UNCHANGED <<env, targets>>
Return(c) ==
    /\ pc' = [pc EXCEPT ![c] = "idle"]
    /\ env' = [env EXCEPT ![c] = NoEnv]
    /\ targets' = [targets EXCEPT ![c] = {}]

VerifyEnvelope(e, pub) == pub # NoKey /\ e.sig = pub

\* Fault: the first test of the cache already marks the id.
ReceiveMarks(c, e) ==
    /\ conn[c] = "up" /\ At(c, "idle")
    /\ e.id \in OwnIds => e.id \in originated
    /\ e.wellFormed /\ ~Has(e.id)
    /\ seen' = Marked(e.id)
    /\ pc' = [pc EXCEPT ![c] = "lookup"]
    /\ env' = [env EXCEPT ![c] = e]
    /\ UNCHANGED <<clock, keys, limiter, conn, targets, bcast, out, history>>

\* Fault: the local handler is called before the checks.
ReceiveShows(c, e) ==
    /\ conn[c] = "up" /\ At(c, "idle")
    /\ e.id \in OwnIds => e.id \in originated
    /\ e.wellFormed /\ ~Has(e.id)
    /\ pc' = [pc EXCEPT ![c] = "lookup"]
    /\ env' = [env EXCEPT ![c] = e]
    /\ delivered' = IF e.kind = "chat" THEN delivered \cup {e} ELSE delivered
    /\ UNCHANGED <<clock, engineVars, conn, targets, bcast, out,
                   originated, accepted, markedAt, spent>>

\* Steps 0a to 0c and 1: shape checks, then the read-only look at the cache.
\* Ids of this node are known to others only once it has used them.
Receive(c, e) ==
    /\ conn[c] = "up" /\ At(c, "idle")
    /\ e.id \in OwnIds => e.id \in originated
    /\ e.wellFormed /\ ~Has(e.id)
    /\ pc' = [pc EXCEPT ![c] = "lookup"]
    /\ env' = [env EXCEPT ![c] = e]
    /\ UNCHANGED <<clock, engineVars, conn, targets, bcast, out, history>>

\* Step 2, first look, and step 3 when the sender is known.
Lookup(c) ==
    /\ At(c, "lookup")
    /\ LET e == env[c] IN
         IF keys[e.sender].trust # Unlisted
         THEN IF VerifyEnvelope(e, keys[e.sender].pub) THEN Goto(c, "allow") ELSE Return(c)
         ELSE IF e.pubkey # NoKey /\ NodeIDOf[e.pubkey] = e.sender
              THEN Goto(c, "learn")
              ELSE Return(c)
    /\ UNCHANGED <<clock, engineVars, conn, bcast, out, history>>

\* Step 2, auto-learn.
Learn(c) ==
    /\ At(c, "learn")
    /\ keys' = Added(env[c].sender, env[c].pubkey, TrustGossipLearned)
    /\ Goto(c, "relookup")
    /\ UNCHANGED <<clock, seen, limiter, conn, bcast, out, history>>

\* Step 2, second look, and step 3.
Relookup(c) ==
    /\ At(c, "relookup")
    /\ IF VerifyEnvelope(env[c], keys[env[c].sender].pub)
       THEN Goto(c, "allow")
       ELSE Return(c)
    /\ UNCHANGED <<clock, engineVars, conn, bcast, out, history>>

\* Fault: the token is taken before the test whether there is one.
AllowInDebt(c) ==
    /\ At(c, "allow")
    /\ LET s == env[c].sender
           t == Tokens(s)
       IN /\ limiter' = [limiter EXCEPT ![s] = [tokens |-> t - TokenCost, lastCheck |-> clock]]
          /\ IF t >= TokenCost
             THEN spent' = [spent EXCEPT ![s] = spent[s] + TokenCost] /\ Goto(c, "check")
             ELSE spent' = spent /\ Return(c)
    /\ UNCHANGED <<clock, seen, keys, conn, bcast, out,
                   originated, accepted, markedAt, delivered>>

\* Step 4: take a token, or give up.  The entry is refreshed either way.
Allow(c) ==
    /\ At(c, "allow")
    /\ LET s == env[c].sender
           t == Tokens(s)
       IN IF t >= TokenCost
          THEN /\ limiter' = [limiter EXCEPT ![s] =
                                [tokens |-> t - TokenCost, lastCheck |-> clock]]
               /\ spent' = [spent EXCEPT ![s] = spent[s] + TokenCost]
               /\ Goto(c, "check")
          ELSE /\ limiter' = [limiter EXCEPT ![s] = [tokens |-> t, lastCheck |-> clock]]
               /\ spent' = spent
               /\ Return(c)
    /\ UNCHANGED <<clock, seen, keys, conn, bcast, out,
                   originated, accepted, markedAt, delivered>>

\* Fault: the id is marked without a second test, Has alone decides.
CheckBlindly(c) ==
    /\ At(c, "check")
    /\ seen' = [seen EXCEPT ![env[c].id] = clock]
    /\ markedAt' = [markedAt EXCEPT ![env[c].id] = clock]
    /\ Goto(c, "deliver")
    /\ accepted' = accepted \cup {[from |-> PeerOf[c], env |-> env[c]]}
    /\ UNCHANGED <<clock, keys, limiter, conn, bcast, out,
                   originated, delivered, spent>>

\* Step 5: test and set.
Check(c) ==
    /\ At(c, "check")
    /\ seen' = Marked(env[c].id)
    /\ markedAt' = MarkedAt(env[c].id)
    /\ IF Has(env[c].id)
       THEN Return(c) /\ accepted' = accepted
       ELSE /\ Goto(c, "deliver")
            /\ accepted' = accepted \cup {[from |-> PeerOf[c], env |-> env[c]]}
    /\ UNCHANGED <<clock, keys, limiter, conn, bcast, out,
                   originated, delivered, spent>>

\* HopCount-- on a uint32.
Decrement(h) == IF h = 0 THEN MaxUint ELSE h - 1

\* Fault: hop count zero is not taken for an exhausted one.
DeliverOffByOne(c) ==
    /\ At(c, "deliver")
    /\ delivered' = IF env[c].kind = "chat" THEN delivered \cup {env[c]} ELSE delivered
    /\ IF env[c].hops = 1
       THEN Return(c)
       ELSE /\ pc' = [pc EXCEPT ![c] = "forward"]
            /\ env' = [env EXCEPT ![c] = WithHops(env[c], Decrement(env[c].hops))]
            /\ targets' = targets
    /\ UNCHANGED <<clock, engineVars, conn, bcast, out,
                   originated, accepted, markedAt, spent>>

\* Step 6, and the hop count test and decrement of step 7.  The handler for
\* chat messages gives a payload it can parse to the hub.
Deliver(c) ==
    /\ At(c, "deliver")
    /\ delivered' = IF env[c].kind = "chat" THEN delivered \cup {env[c]} ELSE delivered
    /\ IF env[c].hops <= 1
       THEN Return(c)
       ELSE /\ pc' = [pc EXCEPT ![c] = "forward"]
            /\ env' = [env EXCEPT ![c] = WithHops(env[c], Decrement(env[c].hops))]
            /\ targets' = targets
    /\ UNCHANGED <<clock, engineVars, conn, bcast, out,
                   originated, accepted, markedAt, spent>>

\* Peers that forwardTo may choose from: all but the one the message is from.
Candidates(c) == {d \in Conns : InMap(d) /\ PeerOf[d] # PeerOf[c]}

\* forwardTo takes a snapshot of the peer map and a random choice of it.
Forward(c) ==
    /\ At(c, "forward")
    /\ \E S \in SUBSET Candidates(c) :
         /\ IF Cardinality(Candidates(c)) > Fanout
            THEN Cardinality(S) = Fanout
            ELSE S = Candidates(c)
         /\ pc' = [pc EXCEPT ![c] = "send"]
         /\ targets' = [targets EXCEPT ![c] = S]
         /\ env' = env
    /\ UNCHANGED <<clock, engineVars, conn, bcast, out, history>>

\* SendRaw on one handle: the envelope is queued, or dropped when the buffer,
\* which exchange messages and keepalives share, is full.
Queue(d, e) == \/ out' = [out EXCEPT ![d] = @ \cup {e}]
               \/ out' = out

Send(c, d) ==
    /\ At(c, "send") /\ d \in targets[c]
    /\ Queue(d, env[c])
    /\ targets' = [targets EXCEPT ![c] = @ \ {d}]
    /\ UNCHANGED <<clock, engineVars, conn, pc, env, bcast, history>>

ForwardDone(c) ==
    /\ At(c, "send") /\ targets[c] = {}
    /\ Return(c)
    /\ UNCHANGED <<clock, engineVars, conn, bcast, out, history>>

-----------------------------------------------------------------------------
(* Broadcast, called by the fanout goroutine with a fresh signed envelope.  *)

OwnEnvelope(m) ==
    [id |-> m, sender |-> Self, pubkey |-> SelfKey, sig |-> SelfKey,
     hops |-> MaxHops, wellFormed |-> TRUE, kind |-> "chat"]

BroadcastMark(m) ==
    /\ bcast.step = "idle" /\ m \notin originated
    /\ originated' = originated \cup {m}
    /\ seen' = Marked(m)
    /\ markedAt' = MarkedAt(m)
    /\ bcast' = [step |-> "peers", env |-> OwnEnvelope(m), targets |-> {}]
    /\ UNCHANGED <<clock, keys, limiter, conn, handlerVars, out,
                   accepted, delivered, spent>>

BroadcastPeers ==
    /\ bcast.step = "peers"
    /\ bcast' = [step |-> "send", env |-> bcast.env,
                 targets |-> {d \in Conns : InMap(d)}]
    /\ UNCHANGED <<clock, engineVars, conn, handlerVars, out, history>>

BroadcastSend(d) ==
    /\ bcast.step = "send" /\ d \in bcast.targets
    /\ Queue(d, bcast.env)
    /\ bcast' = [step |-> "send", env |-> bcast.env, targets |-> bcast.targets \ {d}]
    /\ UNCHANGED <<clock, engineVars, conn, handlerVars, history>>

BroadcastDone ==
    /\ bcast.step = "send" /\ bcast.targets = {}
    /\ bcast' = Idle
    /\ UNCHANGED <<clock, engineVars, conn, handlerVars, out, history>>

-----------------------------------------------------------------------------
Connection(c) ==
    \/ AddPeer(c) \/ PeerConnected(c) \/ Close(c) \/ RemovePeer(c)
    \/ \E k \in Keys : LearnFromExchange(c, k)

HandleIncoming(c) ==
    \/ \E e \in Received : Receive(c, e)
    \/ Lookup(c) \/ Learn(c) \/ Relookup(c) \/ Allow(c) \/ Check(c)
    \/ Deliver(c) \/ Forward(c) \/ ForwardDone(c)
    \/ \E d \in Conns : Send(c, d)

Broadcast ==
    \/ \E m \in OwnIds : BroadcastMark(m)
    \/ BroadcastPeers \/ BroadcastDone
    \/ \E d \in Conns : BroadcastSend(d)

Next ==
    \/ Tick \/ SeenCleanup \/ LimiterCleanup
    \/ \E c \in Conns : Connection(c) \/ HandleIncoming(c)
    \/ Broadcast

Spec == Init /\ [][Next]_vars

-----------------------------------------------------------------------------
(* Properties.                                                              *)

Steps == {"idle", "lookup", "learn", "relookup", "allow", "check",
          "deliver", "forward", "send"}

\* The type of every variable; a goroutine that is at work has an envelope.
TypeOK ==
    /\ clock \in 0 .. MaxClock
    /\ seen \in [MsgIds -> Never .. MaxClock]
    /\ keys \in [NodeIds -> KeyEntry]
    /\ limiter \in [NodeIds -> SenderState]
    /\ conn \in [Conns -> {"new", "added", "up", "closing", "gone"}]
    /\ pc \in [Conns -> Steps]
    /\ env \in [Conns -> Envelope \cup {NoEnv}]
    /\ targets \in [Conns -> SUBSET Conns]
    /\ bcast \in [step: {"idle", "peers", "send"}, env: Envelope \cup {NoEnv},
                  targets: SUBSET Conns]
    /\ out \in [Conns -> SUBSET Envelope]
    /\ originated \in SUBSET OwnIds
    /\ accepted \in SUBSET [from: NodeIds, env: Envelope]
    /\ markedAt \in [MsgIds -> Never .. MaxClock]
    /\ delivered \in SUBSET Envelope
    /\ spent \in [NodeIds -> Nat]
    /\ \A c \in Conns : pc[c] # "idle" => env[c] \in Envelope
    /\ bcast.step # "idle" => bcast.env \in Envelope

\* The signature on e was made with the key its sender id is derived from.
Signed(e) == e.sig # NoKey /\ NodeIDOf[e.sig] = e.sender

\* Authenticity across keyring races: whatever mixture of auto-learning, peer
\* exchange and direct connections filled the keyring, nothing is shown to the
\* local users or relayed to a peer unless the node named as its sender signed
\* it (HandleIncoming steps 2 and 3, KeyRing.Add).
Authentic ==
    /\ \A e \in delivered : Signed(e)
    /\ \A c \in Conns : \A e \in out[c] : Signed(e)

\* Dropped messages do not pollute the seen cache (gossip.go:214-216): an id is
\* marked only for an envelope that passed every check, or by this node's own
\* broadcast, so a copy refused once can be accepted on a retry.
SeenOnlyAccepted ==
    \A m \in MsgIds : Has(m) =>
        \/ m \in originated
        \/ \E a \in accepted : a.env.id = m /\ Signed(a.env)

\* What goes out is this node's own broadcast, or an envelope accepted from a
\* different node with exactly one hop taken off and at least one left: no
\* wrap-around of the unsigned hop count, no echo to where it came from, no
\* relay of what the checks refused (HandleIncoming step 7, forwardTo).
ForwardedFaithfully ==
    \A c \in Conns : \A e \in out[c] :
        \/ e.id \in originated /\ e = OwnEnvelope(e.id)
        \/ \E a \in accepted :
             /\ a.from # PeerOf[c]
             /\ e.hops >= 1
             /\ a.env = WithHops(e, e.hops + 1)

\* However many goroutines handle copies of a message at the same time, one id
\* is newly marked, hence delivered and forwarded, at most once per TTL
\* (Seen.Has, Seen.Check and cleanup).
AcceptOncePerTTL ==
    [][\A m \in MsgIds :
         markedAt'[m] # markedAt[m] /\ markedAt[m] # Never
           => markedAt'[m] > markedAt[m] + TTL]_vars

\* A sender's budget, what it was granted plus what it could still take, grows
\* no faster than the clock.  So in any interval it is granted at most the
\* burst plus the refill of that interval, whichever entries cleanup drops and
\* however the goroutines interleave (RateLimiter.Allow, cleanup).
BudgetNeverGrows ==
    [][\A s \in NodeIds :
         (spent[s] + Tokens(s))' - spent[s] - Tokens(s) <= clock' - clock]_vars

\* A key never changes while it is in the ring and its trust only ever becomes
\* stronger (KeyRing.Add, with a direct connection racing with auto-learning
\* and with peer exchange).
TrustNeverWeakened ==
    [][\A n \in NodeIds : keys[n].trust # Unlisted =>
         keys'[n].trust <= keys[n].trust /\ keys'[n].pub = keys[n].pub]_vars
=============================================================================
