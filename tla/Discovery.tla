----------------------------- MODULE Discovery -----------------------------
(***************************************************************************)
(* The discovery table of one node (internal/transport/discovery.go): what *)
(* connections and peer exchanges write into it, the goroutines that save  *)
(* its records, the loop that picks peers to dial, the goroutines that     *)
(* dial them, and what a restart finds in the store.                       *)
(*                                                                         *)
(* The table is protected by the manager's lock, so one action is one      *)
(* critical section.  The records that are saved are copies made under the *)
(* lock and written later by goroutines of their own, in any order.  Time  *)
(* is counted in seconds; a key is named after the node it belongs to.     *)
(***************************************************************************)
EXTENDS Integers, FiniteSets

CONSTANTS
    Self,        \* this node
    Ids,         \* the nodes it may hear of, itself included
    Addrs,       \* well-formed addresses of a host
    Boot,        \* the one in the bootstrap list
    Wildcard,    \* an address that cannot be dialed
    NoAddr,      \* the empty address
    NoKey,       \* a missing or malformed key
    NoRec,       \* no record
    Hellos,      \* what nodes say of themselves when they connect
    Exchanges,   \* peer exchanges: sets of entries, one for a node at most
    Seeds,       \* records the store may hold from an earlier run; every writer
                 \* sets and clears fails and lastFail together
    StoreFails,  \* whether writes to the store may fail
    MaxPeers,    \* network.max_peers; 0 is no limit
    MaxInt,      \* largest int64
    MaxUint,     \* largest uint64
    MaxBackoff,  \* longest backoff of a record, in seconds
    MaxDials,    \* maxDialsPerTick
    MaxClock,    \* bound on the clock
    MaxUpdates   \* bound on the changes of the table

AnyAddr == Addrs \cup {Boot, Wildcard, NoAddr}
AnyKey == Ids \cup {NoKey}

Record == [addr: AnyAddr, reachable: BOOLEAN, key: AnyKey, lastSeen: 0 .. MaxInt,
           fails: Nat, lastFail: 0 .. MaxClock]

ASSUME DiscoveryAssumption ==
    /\ Self \in Ids /\ IsFiniteSet(Ids)
    /\ Hellos \subseteq [id: Ids, addr: AnyAddr, reachable: BOOLEAN]
    /\ Exchanges \subseteq SUBSET [id: Ids, addr: AnyAddr, reachable: BOOLEAN, key: AnyKey,
                                   lastSeen: 0 .. MaxUint]
    /\ \A E \in Exchanges : \A i, j \in E : i.id = j.id => i = j
    /\ Seeds \subseteq Record /\ NoRec \notin Record /\ NoKey \notin Ids
    /\ \A rec \in Seeds : rec.fails = 0 => rec.lastFail = 0
    /\ {Wildcard, NoAddr} \cap (Addrs \cup {Boot}) = {}
    /\ StoreFails \in BOOLEAN /\ MaxPeers \in Nat /\ MaxInt \in Nat /\ MaxUint \in Nat /\ MaxBackoff \in Nat
    /\ MaxDials \in Nat /\ MaxClock \in 0 .. MaxInt /\ MaxUpdates \in Nat

VARIABLES
    up,       \* the process is running
    now,      \* the clock
    known,    \* Manager.knownPeers
    disk,     \* the peers bucket of the store
    saves,    \* snapshots on their way to the store
    conns,    \* Manager.peers: "none", "added" or "up" (recorded in the table)
    dials,    \* dialDiscovered of a peer: where it is, and who answered
    updates,  \* how many times the table was changed
    \* history
    failures  \* failed dials of a peer since the table said there were none,
              \* and when the last was

vars == <<up, now, known, disk, saves, conns, dials, updates, failures>>

NoDial == [pc |-> "none", peer |-> Self, no |-> 0]
\* dial has returned; n is the change of the table that is being saved, if any.
Ending(n) == [pc |-> "end", peer |-> Self, no |-> n]
NoFailure == [count |-> 0, last |-> 0]

\* isInvalidPeerAddr
IsInvalidPeerAddr(a) == a \in {Wildcard, NoAddr}

\* Fault: the cast from uint64 wraps around.
SafeLastSeenWraps(ts) == IF ts > MaxInt THEN ts - (MaxUint + 1) ELSE ts

SafeLastSeen(ts) == IF ts > MaxInt THEN MaxInt ELSE ts

\* PeerRecord.backoff
Backoff(n) == IF n <= 0 THEN 0 ELSE IF 2 ^ (n - 1) < MaxBackoff THEN 2 ^ (n - 1) ELSE MaxBackoff

\* The nodes that can complete a hello exchange with this one.
Peers == {h.id : h \in Hellos}
Connected == {p \in Ids : conns[p] # "none"}
AtCapacity == MaxPeers > 0 /\ Cardinality(Connected) >= MaxPeers

\* Fault: the key of a stored record is not checked.
LoadedUnchecked(p) ==
    IF disk[p] # NoRec /\ (disk[p].addr = NoAddr \/ ~IsInvalidPeerAddr(disk[p].addr))
    THEN disk[p] ELSE NoRec

\* loadKnownPeers: records with an invalid address or a key of somebody else
\* are skipped.
Loaded(p) ==
    IF /\ disk[p] # NoRec
       /\ disk[p].addr = NoAddr \/ ~IsInvalidPeerAddr(disk[p].addr)
       /\ disk[p].key \in {NoKey, p}
    THEN disk[p] ELSE NoRec

Init ==
    /\ up = FALSE
    /\ now = 0
    /\ known = [p \in Ids |-> NoRec]
    /\ disk \in [Ids -> Seeds \cup {NoRec}]
    /\ saves = {}
    /\ conns = [p \in Ids |-> "none"]
    /\ dials = [p \in Ids |-> NoDial]
    /\ updates = 0
    /\ failures = [p \in Ids |-> NoFailure]

-----------------------------------------------------------------------------
(* The table.                                                               *)

\* One change of a record, and the snapshot that goes to the store.
Update(p, rec) ==
    /\ updates < MaxUpdates /\ updates' = updates + 1
    /\ known' = [known EXCEPT ![p] = rec]

Snapshot(p, rec) == saves' = saves \cup {[no |-> updates + 1, id |-> p, rec |-> rec]}

\* Fault: the failures of the past stay in the record.
OnPeerConnectedKeeps(h) ==
    /\ up /\ conns[h.id] = "added"
    /\ conns' = [conns EXCEPT ![h.id] = "up"]
    /\ LET old == known[h.id]
           rec == [addr |-> h.addr, reachable |-> h.reachable, key |-> h.id, lastSeen |-> now,
                   fails |-> IF old = NoRec THEN 0 ELSE old.fails,
                   lastFail |-> IF old = NoRec THEN 0 ELSE old.lastFail]
       IN Update(h.id, rec) /\ Snapshot(h.id, rec)
    /\ failures' = [failures EXCEPT ![h.id] = NoFailure]
    /\ UNCHANGED <<up, now, disk, dials>>

\* onPeerConnected: the node's own word replaces what the table had, the
\* backoff is reset, and the record is saved in the background.
OnPeerConnected(h) ==
    /\ up /\ conns[h.id] = "added"
    /\ conns' = [conns EXCEPT ![h.id] = "up"]
    /\ LET rec == [addr |-> h.addr, reachable |-> h.reachable, key |-> h.id,
                   lastSeen |-> now, fails |-> 0, lastFail |-> 0]
       IN Update(h.id, rec) /\ Snapshot(h.id, rec)
    /\ failures' = [failures EXCEPT ![h.id] = NoFailure]
    /\ UNCHANGED <<up, now, disk, dials>>

\* What mergeDiscoveredPeers lets through.
Acceptable(i) ==
    /\ i.id # Self
    /\ i.reachable /\ ~IsInvalidPeerAddr(i.addr)
    /\ i.key = i.id

\* Fault: a newer address starts a new record.
MergedAnew(rec, i) ==
    [addr |-> i.addr, reachable |-> i.reachable, key |-> i.key,
     lastSeen |-> SafeLastSeen(i.lastSeen), fails |-> 0, lastFail |-> 0]

\* A record after a newer peer info: the failures of the old address stay.
Merged(rec, i) ==
    [addr |-> i.addr, reachable |-> i.reachable, key |-> i.key,
     lastSeen |-> SafeLastSeen(i.lastSeen),
     fails |-> IF rec = NoRec THEN 0 ELSE rec.fails,
     lastFail |-> IF rec = NoRec THEN 0 ELSE rec.lastFail]

\* The entries of an exchange that are valid and newer than the table.
Fresh(E) ==
    {i \in E : /\ Acceptable(i)
               /\ known[i.id] # NoRec => SafeLastSeen(i.lastSeen) > known[i.id].lastSeen}

\* mergeDiscoveredPeers: one critical section changes every record for which the
\* exchange has news; a goroutine saves them one after the other.
MergeDiscoveredPeers(E) ==
    /\ up /\ Fresh(E) # {}
    /\ updates < MaxUpdates /\ updates' = updates + 1
    /\ known' = [p \in Ids |-> IF \E i \in Fresh(E) : i.id = p
                               THEN Merged(known[p], CHOOSE i \in Fresh(E) : i.id = p)
                               ELSE known[p]]
    /\ saves' = saves \cup {[no |-> updates + 1, id |-> i.id, rec |-> Merged(known[i.id], i)] :
                             i \in Fresh(E)}
    /\ UNCHANGED <<up, now, disk, conns, dials, failures>>

\* buildPeerInfoList: the records that are sent to other nodes.
Exchanged(p) ==
    /\ p # Self /\ known[p] # NoRec
    /\ known[p].reachable /\ ~IsInvalidPeerAddr(known[p].addr)
    /\ known[p].key # NoKey

PeerInfo(p) == [id |-> p, addr |-> known[p].addr, reachable |-> known[p].reachable,
                key |-> known[p].key, lastSeen |-> known[p].lastSeen]

\* saveKnownPeer: a goroutine writes its snapshot, or the store reports an error.
SaveKnownPeer(s) ==
    /\ up
    /\ saves' = saves \ {s}
    /\ disk' = [disk EXCEPT ![s.id] = s.rec]
    /\ UNCHANGED <<up, now, known, conns, dials, updates, failures>>

SaveFails(s) ==
    /\ up /\ StoreFails
    /\ saves' = saves \ {s}
    /\ UNCHANGED <<up, now, known, disk, conns, dials, updates, failures>>

-----------------------------------------------------------------------------
(* Connections and dials.                                                   *)

\* A connection passes addPeer, accepted from outside or dialed by others.
AddPeer(p) ==
    /\ up /\ p \in Peers /\ conns[p] = "none" /\ ~AtCapacity
    /\ conns' = [conns EXCEPT ![p] = "added"]
    /\ UNCHANGED <<up, now, known, disk, saves, dials, updates, failures>>

\* It is over: removePeer deletes it from the map, and a dial that made it returns
\* without an error.
RemovePeer(p) ==
    /\ up /\ conns[p] = "up"
    /\ conns' = [conns EXCEPT ![p] = "none"]
    /\ dials' = [q \in Ids |-> IF dials[q].pc = "conn" /\ dials[q].peer = p
                               THEN Ending(0) ELSE dials[q]]
    /\ UNCHANGED <<up, now, known, disk, saves, updates, failures>>

Candidate(p) ==
    /\ p # Self /\ known[p] # NoRec
    /\ known[p].reachable /\ known[p].addr # NoAddr
    /\ conns[p] = "none" /\ dials[p] = NoDial
    /\ known[p].addr # Boot
    /\ known[p].fails > 0 => now >= known[p].lastFail + Backoff(known[p].fails)

Candidates == {p \in Ids : Candidate(p)}

\* tryDiscoveryDials: MaxDials candidates, or all if they are fewer, get a
\* goroutine each.
TryDiscoveryDials(S) ==
    /\ up /\ ~AtCapacity
    /\ S # {} /\ S \subseteq Candidates
    /\ IF Cardinality(Candidates) > MaxDials THEN Cardinality(S) = MaxDials ELSE S = Candidates
    /\ dials' = [p \in Ids |-> IF p \in S
                               THEN [pc |-> "dial", peer |-> Self, no |-> 0] ELSE dials[p]]
    /\ UNCHANGED <<up, now, known, disk, saves, conns, updates, failures>>

\* The dial of p gets through addPeer; who answers at the address need not be p.
DialConnects(p, q) ==
    /\ up /\ dials[p].pc = "dial" /\ q \in Peers
    /\ conns[q] = "none" /\ ~AtCapacity
    /\ conns' = [conns EXCEPT ![q] = "added"]
    /\ dials' = [dials EXCEPT ![p] = [pc |-> "conn", peer |-> q, no |-> 0]]
    /\ UNCHANGED <<up, now, known, disk, saves, updates, failures>>

\* dial returns an error (nobody answers, the handshake fails, a duplicate):
\* the record counts the failure; the goroutine goes on to save it.
DialFails(p) ==
    /\ up /\ dials[p].pc = "dial"
    /\ IF known[p] = NoRec
       THEN /\ dials' = [dials EXCEPT ![p] = NoDial]
            /\ UNCHANGED <<known, saves, updates, failures>>
       ELSE LET rec == [addr |-> known[p].addr, reachable |-> known[p].reachable,
                        key |-> known[p].key, lastSeen |-> known[p].lastSeen,
                        fails |-> known[p].fails + 1, lastFail |-> now]
            IN /\ Update(p, rec) /\ Snapshot(p, rec)
               /\ dials' = [dials EXCEPT ![p] = Ending(updates + 1)]
               /\ failures' = [failures EXCEPT ![p] = [count |-> failures[p].count + 1, last |-> now]]
    /\ UNCHANGED <<up, now, disk, conns>>

\* The deferred delete of dialing[p], once dial has returned and the record of a
\* failure, if there is one, is saved.
DialDone(p) ==
    /\ up /\ dials[p].pc = "end" /\ \A s \in saves : s.no # dials[p].no
    /\ dials' = [dials EXCEPT ![p] = NoDial]
    /\ UNCHANGED <<up, now, known, disk, saves, conns, updates, failures>>

-----------------------------------------------------------------------------
Tick ==
    /\ now < MaxClock /\ now' = now + 1
    /\ UNCHANGED <<up, known, disk, saves, conns, dials, updates, failures>>

\* NewManager reads the table from the store.
Start ==
    /\ ~up /\ up' = TRUE
    /\ known' = [p \in Ids |-> Loaded(p)]
    /\ failures' = [p \in Ids |-> IF Loaded(p) = NoRec THEN NoFailure
                                  ELSE [count |-> Loaded(p).fails, last |-> Loaded(p).lastFail]]
    /\ UNCHANGED <<now, disk, saves, conns, dials, updates>>

\* The process ends, at any point: what was not written is lost.
Crash ==
    /\ up /\ up' = FALSE
    /\ known' = [p \in Ids |-> NoRec]
    /\ saves' = {}
    /\ conns' = [p \in Ids |-> "none"]
    /\ dials' = [p \in Ids |-> NoDial]
    /\ failures' = [p \in Ids |-> NoFailure]
    /\ UNCHANGED <<now, disk, updates>>

Next ==
    \/ Tick \/ Start \/ Crash
    \/ \E h \in Hellos : OnPeerConnected(h)
    \/ \E E \in Exchanges : MergeDiscoveredPeers(E)
    \/ \E s \in saves : SaveKnownPeer(s) \/ SaveFails(s)
    \/ \E p \in Ids : \/ AddPeer(p) \/ RemovePeer(p) \/ DialFails(p) \/ DialDone(p)
                      \/ \E q \in Ids : DialConnects(p, q)
    \/ \E S \in SUBSET Ids : TryDiscoveryDials(S)

Spec == Init /\ [][Next]_vars

-----------------------------------------------------------------------------
(* Properties.                                                              *)

\* The type of every variable; no claimed time makes a LastSeen negative.
TypeOK ==
    /\ up \in BOOLEAN /\ now \in 0 .. MaxClock
    /\ known \in [Ids -> Record \cup {NoRec}]
    /\ disk \in [Ids -> Record \cup {NoRec}]
    /\ saves \subseteq [no: 1 .. MaxUpdates, id: Ids, rec: Record]
    /\ conns \in [Ids -> {"none", "added", "up"}]
    /\ dials \in [Ids -> [pc: {"none", "dial", "conn", "end"}, peer: Ids, no: 0 .. MaxUpdates]]
    /\ updates \in 0 .. MaxUpdates
    /\ failures \in [Ids -> [count: Nat, last: 0 .. MaxClock]]

\* A node that passes a record on passes on what every node accepts: whatever
\* was merged, told by a peer or found in the store, buildPeerInfoList sends
\* nothing that mergeDiscoveredPeers throws away.
ExchangeAccepted ==
    \A p \in Ids : Exchanged(p) => Acceptable(PeerInfo(p))

\* After n failed dials in a row, and however often the address of the peer
\* changed meanwhile, the next one waits for the backoff of n failures; only a
\* connection with the peer itself, or a restart that lost the count, ends the
\* series (tryDiscoveryDials, dialDiscovered, mergeDiscoveredPeers).
RetriesSpaced ==
    [][\A p \in Ids : dials[p] = NoDial /\ dials'[p].pc = "dial"
         => now >= failures[p].last + Backoff(failures[p].count)]_vars

\* A dial that loses against an inbound connection of the same peer is counted as
\* a failure although the peer is there; that happens once for a connection at
\* most, so the peer is dialed again soon after the connection has ended
\* (dialDiscovered, onPeerConnected).
LostRaceCountsOnce == \A p \in Ids : conns[p] = "up" => known[p].fails <= 1

\* "Peer records are persisted to bbolt (if available) so discovery state
\* survives restarts" (docs/architecture.md): when every write to the store is
\* done, what a restart would load is the table.
StateSurvives ==
    up /\ saves = {} => \A p \in Ids : known[p] # NoRec => disk[p] = known[p]
=============================================================================
