# A TLA+ model of micelio

micelio is a peer-to-peer chat node: users log in over SSH and talk on a local
"partyline"; the nodes connect to each other over Noise-encrypted TCP and
spread the messages by gossip. This directory holds TLA+ modules for its parts,
TLC configurations that check them on small instances, and TLAPS proofs for any
number of nodes, connections and messages. `PROJECT.json` lists, for every
definition, the source lines it models.

## 1. Inventory of the system

| Component | State | Operations | What makes it correct |
|---|---|---|---|
| **Gossip engine** `internal/gossip` | seen cache, keyring, token buckets, each under its own lock | `HandleIncoming`, `Broadcast`, `forwardTo`, two cleanup loops | nothing unsigned is shown or relayed; each id is accepted once per TTL; refused messages leave no trace; hop counts shrink; rate limits hold; over a mesh, traffic ends and only losses keep a message from a node |
| **Partyline hub** `internal/partyline` | session map owned by one goroutine, one buffered channel per session | join, leave, broadcast, who, setNick, stop, `DeliverRemote` | no use of a closed channel; slow readers delay nobody; no message is lost before the hub; remote messages do not go back out |
| **Transport manager** `internal/transport/manager.go` | peer map, `dialing` set, listener, `done` | accept, `dialWithBackoff`, `dial`, `addPeer`, `removePeer`, `Stop`, `fanoutLoop` | the map matches the live connections, is authentic and bounded; nodes reconnect |
| **Peer connection** `internal/transport/peer.go` | send queue, `done`, deadlines, duplicate cache | `ExchangeHello`, `Run` (send and receive loop), `Close`, `SendRaw` | identity is bound to the Noise key; both loops end together; the deadlines end dead connections and no others |
| **Discovery** `internal/transport/discovery.go` | `knownPeers`, records in the store | `onPeerConnected`, `mergeDiscoveredPeers`, `tryDiscoveryDials`, `dialDiscovered`, load and save | only valid records are kept and passed on; failed peers are retried at a distance; the table survives a restart |
| **Noise and framing** `noise.go`, `frame.go` | cipher states, a read buffer | handshake, read, write | streams are split into the same frames again; no legal frame is refused |
| **Envelope signatures** `pkg/proto/envelope.go` | none | sign, verify | hop count and learned key are outside the signature |
| **SSH server** `internal/ssh` | connections, `stopping`, command registry | `Listen`, `Serve`, `handleConnection`, `handleSession`, `runTerminal`, `Stop` | every session leaves the hub; stop misses no connection and drains |
| **Identity** `internal/identity` | `node.key`, `node.pub` | `Load`, `generate` | one data directory has one identity, whatever crashes |
| **Configuration** `internal/config` | none | load, overrides, `Validate` | what passes can be used |
| **main** `cmd/micelio` | order of start-up and shutdown | | nobody is left calling a part that has stopped |
| **Store** `internal/store` | a bbolt file | `Set`, `Get`, `Snapshot` | one process at a time |
| **Crypto, logging, generated protobuf code** | | | |

How they interact. The receive loop of every peer calls `HandleIncoming` and
`mergeDiscoveredPeers` in its own goroutine. The engine calls back into the
manager for handles of the connected peers, and the chat handler calls
`Hub.DeliverRemote`, which may block on the hub's queue. The hub hands local
messages to the manager's `remoteSend` channel; `fanoutLoop` signs them and
calls `Broadcast`. Connection goroutines add and remove peers, write the
keyring and the discovery table, and start goroutines that save records. main
brings the parts up in the order identity, store, hub, transport, SSH server,
and takes them down in the order transport, SSH server, hub.

What is hard: concurrent handlers of copies of one message; keys that arrive by
three ways at once; state checked under one lock and used under another
(capacity, duplicates, seen ids, handles); acknowledgement before admission;
timers of two ends that race; shutdown during a handshake, an accept or a call
into the hub; background writes in any order; crashes in the middle of writing
a file; unsigned hop counts and times. The full list, each item at its line, is
under `hazards` in `PROJECT.json`.

## 2. Modules

| Module | Models | State and actions |
|---|---|---|
| `Gossip` | one node's engine with its connections | one action per critical section of `HandleIncoming` (`Receive`, `Lookup`, `Learn`, `Relookup`, `Allow`, `Check`, `Deliver`, `Forward`, `Send`, `ForwardDone`) for every connection; `Broadcast*` for the fanout goroutine; `AddPeer`, `PeerConnected`, `Close`, `RemovePeer`, `LearnFromExchange`; `SeenCleanup`, `LimiterCleanup`, `Tick` |
| `Mesh` | the engines of many nodes over a topology of connections | `Broadcast`, `Accept` and `Refuse` (one call of `HandleIncoming` each), `Expire`, `Break`, `Reconnect` |
| `Dissemination` | abstract: what a mesh promises | `Write`, `Show`, `Forget` |
| `Hub` | the hub, the terminal and printer goroutines of SSH sessions, the transport's two ends | one action per case of the select (`HubJoin` ... `HubStop`), one per call (`Join`, `SetNick`, `Who`, `Leave`, `Type`/`Broadcast`, `DeliverRemote`), `ShowLine`, `Finish`, `TakeRemote`, `Stop` |
| `Manager` | the managers of a network of nodes and both ends of each connection | dialers (`Check`, `Retry`, `Tick`, `Jitter`, `Connect`, `ConnectFails`), ends (`HandleInbound`, `Handshake`, `ExchangeHello`, `Fail`, `AddPeer`, `OnPeerConnected`, `LoopEnds`, `RemovePeer`), `Stop`, `Fault` |
| `PeerConn` | both ends of one connection with their clocks | `WriteOpening`, `ReadOpening`, `OpeningFails` for the handshake and the hello exchange; `TakeMessage`, `WriteKeepalive`, `Written`, `SendLoopEnds`; `Read`, `Handled`, `RecvLoopEnds`; `RunCloses`, `SendRaw`, `Stop`; the network (`Deliver`, `Cut`), `Stall`, `Tick` |
| `Frames` | one direction of a connection as bytes, from `WriteFrame` to `ReadFrame` | `WriteFrame`, `WriteMessage`; `ReadMessage`, `ReadBuffered`, `ParseHeader`, `ReturnFrame`, `MessageTooLarge`, `ReadFails` |
| `Discovery` | one node's table and its store | `OnPeerConnected`, `MergeDiscoveredPeers`, `TryDiscoveryDials`, `DialConnects`, `DialFails`, `DialDone`, `SaveKnownPeer`, `SaveFails`, `AddPeer`, `RemovePeer`, `Start`, `Crash`, `Tick` |
| `Shutdown` | main from the signal to the exit, the SSH server, its goroutines, the hub's queue and the receive loops that use it | `Listen`, `Accept`, `Register`, `AcceptFails`, `CloseListener`; one action per step of `handleConnection` and of `handleSession`; `HubTakes`, `AddPeer`, `Receive`, `DeliverRemote`, `ReceiverEnds`; main: `Cancel`, `StopTransport`, `StopServer`, `Drain` or `DrainTimeout`, `StopHub` |
| `Startup` | configuration, identity and main up to the moment the node serves, over restarts | operators for `Validate` and the addresses; `Start`, `Load`, `Generate`, `OpenKey`, `WriteKey`, `OpenPub`, `WritePub`, `OpenStore`, `Serve`, `Exit`, `WriteError`, `Crash` |
| `MC*` | | small instances for TLC; `Shutdown` and `Frames` need none |
| `GossipProofs`, `HubProofs`, `ManagerProofs`, `MeshProofs`, `DiscoveryProofs`, `PeerConnProofs`, `FramesProofs` | | inductive invariants and proofs about the module of that name |
| `LifecycleProofs` | | the same for `Startup` (`Spec`) and `Shutdown` (`DownSpec`) |

Definitions marked "Fault:" are wrong variants of the definition that follows
them. No specification uses them; putting one in the place of the right
definition makes TLC report the property it is meant to break, which shows that
the property depends on that piece of the code.

How the modules fit together. `Gossip` shows that a call of `HandleIncoming`
accepts an id or refuses it as a whole whatever runs beside it (an id is marked
and looked up under one lock), which is why `Mesh` may take the call for one
step. `Mesh` implements `Dissemination`. `Manager` takes a connection for a pair
of ends that may fail at any time; `PeerConn` shows when they do, and `Frames`
what a connection delivers until then. `Hub` has the whole of the hub; in
`Shutdown` only its queue and its map are left, together with everybody who
calls it while the node goes down.

### How data are abstracted

* A signature is the key that made it, and SHA-256 is an injective map from keys
  to node identifiers (`NodeIDOf`). In `Manager` and `Discovery` a key is named
  after the node it belongs to.
* An envelope has the fields `HandleIncoming` reads; the length checks 0a to 0c
  are the Boolean `wellFormed`, type and payload are `kind`: a chat message, one
  that does not parse, or a type without a handler. In `Mesh` all nodes follow
  the protocol, and an envelope is its message and its hop count.
* Time in `Gossip` is counted in ticks and tokens in ticks of refill, so that
  the fractional tokens of the code are whole numbers. `LimiterTTL >= Burst`
  stands for "five minutes are longer than the two seconds a bucket takes to
  fill". In `Mesh` there is no clock: ids expire, limiters refuse and
  connections break at any time.
* A send queue in `Gossip` is the set of envelopes ever queued (`out`). `SendRaw`
  succeeds or drops: the buffer is shared with other traffic. In `Mesh` it is a
  bounded queue, in `PeerConn` a bounded count.
* The text of a line on a terminal is its kind, author and nickname. An inbox is
  the number of lines in it.
* Hellos of a node that does not follow the protocol (`Liars`) may claim any
  identifier and key, and may be copies of somebody else's.
* Deadlines are not counted in `Manager`. One that fires while the other end is
  alive is a `Fault`, like a reset; `PeerConn` counts them. There a goroutine
  that can run does so before the clock moves, and only the network and the
  handlers take time.
* An address in `Discovery` is a value; `isInvalidPeerAddr` tells the dialable
  ones from the wildcard and the empty one. In `Startup` it is one of ten
  kinds that the validators, `net.Listen` and `isInvalidPeerAddr` tell apart. A
  peer exchange has one entry for a node at most.
* A message in the hub's queue carries the `system` flag of the code. Its author is
  kept beside it for the properties; the hub looks at the flag only.
* `Mesh` counts how often a message was shown at a node since its id last expired
  there, so that showing it again is a step of its own.
* A byte in `Frames` is the frame it belongs to and its place in it; a header is
  right if its bytes are those of the beginning of one frame.
* A file in `Startup` is absent, torn or a key: `os.WriteFile` truncates, then
  writes.

History variables (`accepted`, `markedAt`, `spent`, `announced`, `refused`,
`failures`, `reached`, `lost`, `ran` ...) record what happened for the properties; no guard
reads them, except that nobody uses an own id of the node before it has
broadcast it.

## 3. Runs

| Run | Instance | Properties |
|---|---|---|
| `gossip_node` | one engine, two receive goroutines, one fanout goroutine; copies of a message of the other node with its key, under a wrong key, oversized, and of unknown type without a key or hops; the node's own message coming back; clock 0..2, TTL 1, a bucket of one token, both cleanups | `TypeOK`, `SeenOnlyAccepted`, `Authentic`, `ForwardedFaithfully`, `AcceptOncePerTTL`, `BudgetNeverGrows`, `TrustNeverWeakened` |
| `mesh` | five nodes: a triangle with a tail; one message, queues of one, one break, limiters that refuse, ids that expire | `TypeOK`, `Horizon`, `ImplementsDissemination`, `TrafficEnds`, `EveryoneShown` |
| `hub_sessions` | two sessions, one remote goroutine, two nicks, queues and inboxes of one | `TypeOK`, `NoPanic`, `StopReleasesPrinters`, `NickAsAnnounced`, `NoReflood`, `CallsReturn`, `PostsProcessed` |
| `manager_star` | three nodes, room for one peer, one liar, a stale discovery address, one failure | `TypeOK`, `MapMatchesConnections`, `PeersAuthenticated`, `WithinCapacity` |
| `manager_live` | one bootstrap peer, two failures, three connections, both nodes may stop | `HalfOpenEnds`, `Reconnects` |
| `manager_refused` | two nodes dial one that has room for one | `RefusedDialsWait` **fails** |
| `peer_conn` | one connection; delays and handlers of up to one tick, keepalive 1, idle 4, write 5; the network goes away, the acceptor stops or its handlers hang | `HealthyStaysUp`, `DeadNoticed`, `LoopsEnd` |
| `frames` | three frames of 0 to 2 bytes, one Noise message each or cut anywhere, the connection fails at any time or never | `FramesIntact`, `FramesArrive` |
| `discovery_table` | two peers and the node itself, a stored record, exchanges with clamped times, three changes, clock 0..3, backoff up to 2 | `TypeOK`, `ExchangeAccepted`, `RetriesSpaced`, `LostRaceCountsOnce` |
| `discovery_restart` | two changes of one record | `StateSurvives` **fails** |
| `shutdown` | two SSH clients, one peer, a queue of one | `DrainComplete`, `ShutdownCompletes`, `HubCallsReturn` |
| `startup` | each of 185 configurations, up to three kills or write errors | `IdentityKept`, `AdvertisedAccepted`, `StartsUnlessTorn` |

What they show, beside the obvious:

* `mesh`. Horizon and termination do not rest on the seen caches: with ids that
  expire while copies are still under way a message is shown again, but its hop
  count still ends the traffic. `EveryoneShown` is the liveness counterpart of
  `Dissemination`: a message of which no copy was lost, throttled or left out is
  shown everywhere, although the copy that comes first and is the only one to be
  relayed may have taken a detour.
* `hub_sessions`. What keeps a remote message from going out again is the flag
  `DeliverRemote` sets; queued in the name of a made-up session instead, it would
  look right on every terminal and flood the mesh.
* `manager_live`. What is left of a lost connection does not keep a new one out,
  even if the acceptor hangs in its Noise handshake for good. A dialer that hangs
  there is lost: nothing in the code makes it return, no fairness is assumed of
  it, and `Reconnects` names it as the exception.
* `peer_conn`. With the shortest idle timeout that the delays allow no keepalive
  comes late, whatever is sent in between. A dead connection is given up within
  the idle timeout and the time for the frame in the handler and those that had
  already arrived (`EvictionTime`), from the end of the Noise handshake on;
  before that no deadline is set.
* `shutdown`. The order transport, SSH server, hub is what lets every call into
  the hub return. A connection that `Serve` has accepted and not yet registered
  does not slip past `Stop`. A peer connection that is added after
  `Manager.Stop` stays open and goes on delivering; that does not keep the node
  from going down, as the hub is the last to stop.
* `startup`. Wherever a process is killed, the node never shows up under a
  second identity. The one state on disk that keeps it down is a torn `node.key`.
  The check of addresses in the configuration and that of the peers differ, but
  everything that passes the first and is advertised passes the second, with one
  exception (see below).

Why the bounds are enough to meet the hard cases:

* `gossip_node`: two ticks are more than the TTL and the limiter's TTL, so ids
  expire and are accepted again and limiter entries are dropped and return.
  `MaxUint` is 4, so that a wrapped hop count shows. One connection per node and
  no peer limit: these are what the `manager_*` runs are about. With two peers
  and the sender excluded there is never more than one target; the random choice
  of `forwardTo` among more than `Fanout` peers is covered by the proofs, which
  hold for every `Fanout`, and not by a run. The same is true of `mesh`.
* `mesh`: the triangle makes copies cross and meet, the tail makes a copy that
  took the detour need all four hops; queues of one make the second copy on a
  link be lost.
* `hub_sessions`: capacity one makes every queue full; two sessions are needed
  for one to read what the other wrote.
* `manager_star`: with room for one, three nodes contend for it, and two slots
  let a new connection overlap with the remains of an old one. In `manager_live`
  two failures may leave two acceptors that hang, hence three slots.
* `peer_conn`: the idle timeout is the least with which `HealthyStaysUp` holds
  for a delay of one (`Timely`, which the instance is asserted to satisfy, is
  tight in it), so the timer is met at its limit; the write timeout is long
  enough for the send loop of a dead connection to outlive the receive loop; one
  of the overrides is not positive and leaves the default. One thing goes wrong
  at a time.
* `frames`: the header has two bytes and may be split; the longest payload, the
  empty one and messages that hold parts of two frames all occur.
* `discovery_table`: the backoff doubles once and is capped, times exceed
  `MaxInt`, a record of the store belongs to another node.
* `shutdown`: two clients, so that one may still be in the hub while the other
  is being accepted; a queue of one is full at once.
* `startup`: every pair of listen and advertised address, and every value of the
  other fields alone. One process at a time.

`CHECK_DEADLOCK FALSE` is set where everybody may be done for good: users may
leave, the node may be down and bounds of messages, faults and updates be used
up. The gossip, connection and start-up runs check for deadlock.

### Findings

`findings` in `PROJECT.json` quotes both sides of two disagreements between the
code and its documentation:

1. `manager_refused`: a bootstrap dialer that is refused by `addPeer` at the
   other end redials without any delay, since its own side of the hello exchange
   had succeeded and `dial` returns nil.
2. `discovery_restart`: saves of one peer record may be written out of order,
   and the older one stays in the store.

Seen while modelling, and not kept as runs of their own:

* The Noise handshake runs without a deadline (`manager.go:200`), while
  `docs/index.md:35` says that timeouts "detect and evict dead or unresponsive
  peers". `DeadNoticed` is stated for ends past the handshake for this reason, and
  `Reconnects` exempts a dialer that hangs in it. (The TCP keepalive that Go turns
  on by default may end such a wait when the other host is gone, though not when it
  is there and silent; the code does not set it, and the model does not count on it.)
* A connection that reaches `addPeer` after `Manager.Stop` has walked the map
  (`manager.go:134`, `215`) is not closed; `Shutdown` contains this.
* Two nodes that dial each other at the same moment may each refuse the other's
  connection as the newer one (`docs/protocol/connection.md:122` describes the
  rule). Whether they settle depends on their timers.
* `forwardTo` does not exclude the local node (`gossip.go:290`), although the
  comment on `NewEngine` says that `localID` is excluded.
* A torn key file keeps a node from starting until somebody removes it
  (`identity.go:63`), and a `node.pub` that is missing is not written again,
  as `Load` looks at `node.key` only (`identity.go:26`).
* Two first starts that overlap on one data directory can both generate a key,
  as the lock on the store is taken later. `Startup` is checked for one process
  at a time.
* `Validate` trims the addresses it checks and the listeners do not trim the
  ones they bind (`config.go:166`), so a padded address passes and cannot be
  bound.
* Nor is an advertised address trimmed (`manager.go:387`), though
  `config_validate_test.go:307` has a padded one for valid ("whitespace trimmed").
  Peers take " h:80 " as it is, but not a bracketed IPv6 address after white space:
  `net.SplitHostPort` then finds too many colons (`discovery.go:303`). A node
  configured so runs, and no peer records its address. `AdvertisedAccepted`
  excepts exactly this kind, `padded6`.

### Fairness

* `Hub`: weak fairness of each case of the select. Go's select picks at random
  among the ready cases, and senders that block on a channel are served in
  order, so a waiting request is not passed over for ever. A client that waits
  for room in the broadcast queue competes with others for it, hence strong
  fairness of `Broadcast`. Nothing is assumed of users, printers, the transport
  or the stop: `CallsReturn` holds although no printer ever prints.
* `Manager`: weak fairness of each step of a goroutine; a goroutine that can run
  does. A read fails when the other end has closed, and on a lost connection when
  its deadline fires. In the Noise handshake there is no deadline, so nothing is
  assumed of an end that is in it when the connection is lost (`Hung`): it may
  fail, or wait for ever. Nothing is assumed of faults and stops either, which are bounded by `MaxFaults` and happen once
  per node.
* `Mesh`: weak fairness of the receive loop of each link. Nothing is assumed of
  limiters, expiry, breaks or reconnections.
* `PeerConn`: the clock goes on, frames arrive unless the network is gone, and
  each goroutine of an end runs; a handler that hangs returns in the end.
* `Frames`: weak fairness of the reader; a writer of another implementation
  writes out what it has, whatever empty messages come between (strong, since
  the buffer may be full again and again).
* `Shutdown`: weak fairness of goroutines, strong where they wait for room in
  the hub's queue. Clients need do nothing: they may never authenticate, read or
  answer. Once its connection is closed nothing waits for a client. The timeout
  of `Stop` is not relied on.
* `Startup`: a process goes on, and one that ended with an error is started
  again.

## 4. Proofs

All theorems hold for every value of the constants that satisfies the named
assumptions: `NodeAssumption` (an injective hash, the node's own key),
`WireAssumption` (nobody else signs with this node's key), `LimitAssumption`,
`HubAssumption`, `ManagerAssumption`, `MeshAssumption` (links are symmetric and
`Within` grows with the hops at least as fast as neighbourhoods do),
`DiscoveryAssumption` (an exchange has one entry for a node at most; a record
left in the store by an earlier run has a time of a failure only together with a
failure, as the code sets and clears the two together), `PeerConnAssumption`,
`FramesAssumption`, `StartupAssumption`. Each of them is evaluated by TLC on the
instance of every run. Three theorems have a hypothesis of their own, named
below.

Every safety property that a passing run checks is stated by a theorem.

* `GossipProofs`. `IndInv` adds to the safety properties: no recorded time is
  ahead of the clock (`NotAhead`); every key in the ring hashes to the node it
  is filed under (`KeyBinding`), and so does one about to be learned
  (`Learning`); past step 3 the envelope in hand is signed by its sender
  (`Vetted`); a goroutine that relays holds an accepted envelope less one hop
  and handles of other nodes only (`Relaying`); the fanout goroutine holds an
  own envelope (`Broadcasting`); the cache knows when an id was last marked, or
  that is longer ago than the TTL (`Marking`). `Authentic` is not inductive
  without the first two: signatures are checked against the ring, so what the
  ring holds must be right at every step between look-up and use. Proved:
  type correctness, `Authentic`, `SeenOnlyAccepted`, `ForwardedFaithfully`, and
  the action properties `AcceptOncePerTTL`, `TrustNeverWeakened` and
  `BudgetNeverGrows`. The last needs `LimiterTTL >= Burst`.
* `MeshProofs`. `IndInv` says of every copy on a wire that its message has been
  written, that it has a hop left and that the node that sent it is within the
  hops it has used of its author (`WiresOK`, `MayLeave`), and of every message
  shown that it was within reach (`Reached`). That copies on wires have been
  written is what the refinement needs: `Show` is only allowed then. `SentKeeps`
  and `ReadKeeps` say that sending and reading preserve `WiresOK`, and `OneHop`
  that a relayed copy may leave the next node. Proved: type correctness,
  `Horizon`, and that `Mesh` implements `Dissemination` (the mapping takes a
  node's memory for its seen cache; `Refuse`, `Break` and `Reconnect` are
  stuttering steps; a second showing would not be one, as showings are counted).
* `HubProofs`. `Ownership` says, for a running hub, that a session is in the map
  exactly while its terminal goroutine is between join and leave, and its
  channel is closed exactly afterwards; `Announcement` that every session that
  has joined was announced under its present nickname and that only such
  sessions have messages in the queue; `Flagged` that the messages in the queue
  with the system flag are those of remote nodes, which `NoReflood` needs, since
  the hub forwards by the flag, and `NickAsAnnounced`, since it names by it.
  Proved: type correctness (with the
  capacities), `NoPanic`, `StopReleasesPrinters`, `NickAsAnnounced`,
  `NoReflood`.
* `ManagerProofs`. `Bound` says that an end past the hello exchange has the
  identifier of the node at the other end. With `MapMatchesConnections` this
  gives `PeersAuthenticated`; `WithinCapacity` rests on the cardinality of the
  map's domain. Proved: type correctness, `MapMatchesConnections`,
  `PeersAuthenticated`, `WithinCapacity`.

* `DiscoveryProofs`. `Records`: every record has the key of its node or none,
  and nothing in the table, on its way to the store or in the store has the time
  of a failure without a failure. `Counted`: the table's counter is the number
  of failures there were. `Raced`: the record of a connected node has no failure,
  or one, and then no dial of that node is under way. `ExchangeAccepted` needs the
  first, since the receiver checks the key against the identifier;
  `LostRaceCountsOnce` is not inductive without the last clause of `Raced`, which
  says why a second failure cannot follow. `RetriesSpaced` is an action property:
  `tryDiscoveryDials` looks at the counter in the table, and `Counted` makes that
  the history of the dials. The invariant covers crashes and restarts; that the
  store may hold an older snapshot (finding 2) does not harm it. Proved: type
  correctness, in particular that no claimed time makes `LastSeen` overflow, and
  the three properties.
* `PeerConnProofs`. The common part (`Types`, `LoadBound`, `Loops`, `Shape`) says
  where the two ends may be in the opening, and how many frames are then under
  way in each direction. For `HealthyStaysUp` it is joined by `InTime`: while an
  end waits, what it waits for is in its buffer, or under way and closer than the
  deadline, or will be written soon enough, by the other end's send loop, by its
  keepalive timer, or once the ack that starts these has arrived; while an end
  writes, there is room or room will be made in time. The hypothesis `Timely`
  (`HandshakeTimeout > 3 * Delay`, idle greater than keepalive plus twice `Delay`,
  write greater than `Delay` and than `HandlerMax`) is what each of these clauses
  needs when it is established; the defaults of the code (10 s, 60 s, 20 s, 10 s)
  satisfy it as long as a frame takes less than 3 s and a handler less than 10 s.
  For `DeadNoticed`, `Dying` says that the age of the cut and the time the end
  still takes (`TimeLeft`: what is left of the deadline that runs, the handlers of
  the frames that have arrived and a last idle timeout) never exceed
  `EvictionTime`; `Frozen` says what an end still in the opening can be waiting
  for then. This one has no hypothesis: it holds for all timeouts.
* `FramesProofs`. What has been written is one stream of bytes. `Layout` gives
  every frame and every Noise message under way its place in it (`Offsets`,
  `Marks`): the part of a frame that `ReadFull` has, the rest of the last message
  (`readBuf`), the messages on the wire and what the writer has not yet sent
  follow one another without gap or overlap (`Piece`). So the next bytes to be
  read are the next ones of the frame that `ReadFrame` is at (`NextBytes`),
  wherever a message ends (`Partial`, `Done`). Sums of lengths are avoided, as
  they would need induction: the offsets are quantified, and each step of the
  writer extends them. Proved: `FramesIntact`, for all sizes.
* `LifecycleProofs`, start-up. `OnDisk` ties the state of `node.key` (missing,
  torn, whole) to how far the process is that creates it, and every identity in
  memory to the one on disk; `RanWithIt` says that the node has been on the
  network with that one only. `IdentityKept` is proved for any number of
  processes on one data directory under the hypothesis that no two of them create
  an identity at the same time (`CreateAlone`), and from this for one process at
  a time without any; the hypothesis cannot be dropped, as the overlap of two
  first starts shows (see the findings). `Validated` gives `AdvertisedAccepted`,
  for every configuration and with no hypothesis but the exception it names.
* `LifecycleProofs`, shutdown. A chain of who outlives whom: a connection not yet
  registered has no goroutine (`Unregistered`), `handleConnection` outlives its
  session (`SessionWithin`), which outlives its printer and leaves the hub before
  that (`PrinterWithin`); after `Stop` no connection gets a goroutine (`Quiet`).
  `DrainComplete` follows for any number of clients and peers.

Only model-checked: the liveness properties (`CallsReturn`, `PostsProcessed`,
`HalfOpenEnds`, `Reconnects`, `TrafficEnds`, `EveryoneShown`, `LoopsEnd`,
`ShutdownCompletes`, `HubCallsReturn`, `StartsUnlessTorn`, `FramesArrive`). They
need fairness and are out of the prover's reach.

## 5. Not modelled

* Cryptography and key conversion: elliptic-curve arithmetic, taken for perfect.
* Protocol buffer encoding: generated code.
* TOML decoding, expansion of the home directory, the file of authorized keys.
* Logging and statistics counters: no effect on the behaviour of a node.
* bbolt and the terminal library: external; they appear as a lock on a file, a
  map of records, and reads and writes that may fail.
* The duplicate cache of each peer connection, which serves peer exchanges only:
  merging one a second time changes nothing.
* The texts of commands; the ones that reach the hub are in `Hub`.

## 6. Plan

Done: all the modules, and proofs of the safety properties of all of them. Left:

1. The safety half of the liveness properties: that a wait which ends by fairness
   has somebody to end it (for `HubCallsReturn`, that the hub runs whenever a
   goroutine waits for it; for `LoopsEnd`, that a loop of a closed connection has
   a step to take), as invariants that can be proved.
2. Two nodes that dial each other at the same time: whether their timers settle
   it is a question about distributions of delays, not one of fairness.
