-------------------------- MODULE DiscoveryProofs --------------------------
(***************************************************************************)
(* Proofs about the discovery table, for any set of nodes, any hellos and  *)
(* exchanges, any contents of the store that earlier runs may have left,   *)
(* and any length of the run.                                              *)
(***************************************************************************)
EXTENDS Discovery, TLAPS

\* A record without failures has no time of a failure.
Clean(rec) == rec.fails = 0 => rec.lastFail = 0

\* Every record of the table has the key of its node or none; nothing in the
\* table, on its way to the store or in the store has a time of a failure
\* without a failure.
Records ==
    /\ \A p \in Ids : known[p] # NoRec => known[p].key \in {NoKey, p} /\ Clean(known[p])
    /\ \A p \in Ids : disk[p] # NoRec => Clean(disk[p])
    /\ \A s \in saves : Clean(s.rec)

\* The table counts the failures there were.
Counted ==
    \A p \in Ids : failures[p] = IF known[p] = NoRec THEN NoFailure
                                 ELSE [count |-> known[p].fails, last |-> known[p].lastFail]

\* While a node is connected its record has no failure, or one, and then the dial
\* that failed is over and no other is under way.  A process that does not run
\* has no connections.
Raced ==
    /\ ~up => \A p \in Ids : conns[p] = "none"
    /\ \A p \in Ids : conns[p] = "up" =>
         /\ known[p] # NoRec
         /\ known[p].fails = 0 \/ (known[p].fails = 1 /\ dials[p].pc # "dial")

IndInv == TypeOK /\ Records /\ Counted /\ Raced

-----------------------------------------------------------------------------
(* The operators of the table.                                              *)

Info == [id: Ids, addr: AnyAddr, reachable: BOOLEAN, key: AnyKey, lastSeen: 0 .. MaxUint]

\* A time of the network is clamped to what an int64 holds (safeLastSeen).
LEMMA Clamped ==
    ASSUME NEW t \in 0 .. MaxUint
    PROVE  SafeLastSeen(t) \in 0 .. MaxInt
BY DiscoveryAssumption DEF SafeLastSeen

\* Merging makes a record out of any record and any peer info, keeps the failures
\* and takes the key from the info (mergeDiscoveredPeers).
LEMMA MergedIsRecord ==
    ASSUME NEW rec \in Record \cup {NoRec}, NEW i \in Info
    PROVE  /\ Merged(rec, i) \in Record /\ Merged(rec, i).key = i.key
           /\ rec # NoRec => Merged(rec, i).fails = rec.fails /\ Merged(rec, i).lastFail = rec.lastFail
           /\ rec = NoRec => Merged(rec, i).fails = 0 /\ Merged(rec, i).lastFail = 0
<1>1. SafeLastSeen(i.lastSeen) \in 0 .. MaxInt
  BY Clamped DEF Info
<1>2. i.addr \in AnyAddr /\ i.reachable \in BOOLEAN /\ i.key \in AnyKey
  BY DEF Info
<1>3. CASE rec = NoRec
  <2>1. 0 \in Nat /\ 0 \in 0 .. MaxClock
    BY DiscoveryAssumption
  <2> QED BY <1>1, <1>2, <1>3, <2>1 DEF Merged, Record
<1>4. CASE rec # NoRec
  <2>1. rec.fails \in Nat /\ rec.lastFail \in 0 .. MaxClock
    BY <1>4 DEF Record
  <2> QED BY <1>1, <1>2, <1>4, <2>1 DEF Merged, Record
<1> QED BY <1>3, <1>4

\* What a merge takes from an exchange: entries about other nodes, under their own
\* key, and one for each node.
LEMMA FreshEntries ==
    ASSUME NEW E \in Exchanges, NEW i \in Fresh(E)
    PROVE  i \in Info /\ i.id \in Ids /\ i.key = i.id /\ i.id # Self
BY DiscoveryAssumption DEF Fresh, Acceptable, Info

\* What the merge makes of the table at p.
LEMMA MergedTable ==
    ASSUME TypeOK, NEW E \in Exchanges, MergeDiscoveredPeers(E), NEW p \in Ids
    PROVE  \/ known'[p] = known[p]
           \/ \E i \in Fresh(E) : i \in Info /\ i.id = p /\ i.key = p /\ known'[p] = Merged(known[p], i)
<1>1. known'[p] = IF \E i \in Fresh(E) : i.id = p
                  THEN Merged(known[p], CHOOSE i \in Fresh(E) : i.id = p) ELSE known[p]
  BY DEF MergeDiscoveredPeers
<1>2. CASE \E i \in Fresh(E) : i.id = p
  <2> DEFINE j == CHOOSE i \in Fresh(E) : i.id = p
  <2>1. j \in Fresh(E) /\ j.id = p
    BY <1>2
  <2>2. j \in Info /\ j.key = p
    BY <2>1, FreshEntries
  <2>3. known'[p] = Merged(known[p], j)
    BY <1>1, <1>2
  <2> HIDE DEF j
  <2> QED BY <2>1, <2>2, <2>3
<1> QED BY <1>1, <1>2

\* The record of a node that has connected is one, without failures.
LEMMA HelloRecord ==
    ASSUME TypeOK, NEW h \in Hellos
    PROVE  LET rec == [addr |-> h.addr, reachable |-> h.reachable, key |-> h.id,
                       lastSeen |-> now, fails |-> 0, lastFail |-> 0]
           IN rec \in Record /\ rec # NoRec /\ rec.fails = 0 /\ rec.lastFail = 0 /\ rec.key = h.id
<1>1. h.id \in AnyKey /\ h.addr \in AnyAddr /\ h.reachable \in BOOLEAN
  BY DiscoveryAssumption DEF AnyKey
<1>2. now \in 0 .. MaxInt /\ 0 \in Nat /\ 0 \in 0 .. MaxClock
  BY DiscoveryAssumption DEF TypeOK
<1>3. [addr |-> h.addr, reachable |-> h.reachable, key |-> h.id,
       lastSeen |-> now, fails |-> 0, lastFail |-> 0] \in Record
  BY <1>1, <1>2 DEF Record
<1> QED BY <1>3, DiscoveryAssumption

\* So is that of a node that could not be dialed, with one failure more.
LEMMA FailedRecord ==
    ASSUME TypeOK, NEW p \in Ids, known[p] # NoRec
    PROVE  LET rec == [addr |-> known[p].addr, reachable |-> known[p].reachable,
                       key |-> known[p].key, lastSeen |-> known[p].lastSeen,
                       fails |-> known[p].fails + 1, lastFail |-> now]
           IN /\ rec \in Record /\ rec # NoRec
              /\ rec.fails = known[p].fails + 1 /\ rec.lastFail = now /\ rec.key = known[p].key
<1>1. known[p] \in Record
  BY DEF TypeOK
<1>2. known[p].addr \in AnyAddr /\ known[p].reachable \in BOOLEAN /\ known[p].key \in AnyKey
      /\ known[p].lastSeen \in 0 .. MaxInt
  BY <1>1 DEF Record
<1>3. known[p].fails + 1 \in Nat /\ now \in 0 .. MaxClock
  BY <1>1 DEF Record, TypeOK
<1>4. [addr |-> known[p].addr, reachable |-> known[p].reachable, key |-> known[p].key,
       lastSeen |-> known[p].lastSeen, fails |-> known[p].fails + 1, lastFail |-> now] \in Record
  BY <1>2, <1>3 DEF Record
<1> QED BY <1>4, DiscoveryAssumption

\* What is loaded is what the store has, if it has the right key.
LEMMA LoadedRecord ==
    ASSUME NEW p \in Ids, Loaded(p) # NoRec
    PROVE  Loaded(p) = disk[p] /\ disk[p] # NoRec /\ disk[p].key \in {NoKey, p}
BY DEF Loaded

-----------------------------------------------------------------------------
(* Types.                                                                   *)

\* The inductive invariant holds when the process has not been started.
LEMMA InitInd == Init => IndInv
<1> SUFFICES ASSUME Init PROVE IndInv
  OBVIOUS
<1>1. NoDial \in [pc: {"none", "dial", "conn", "end"}, peer: Ids, no: 0 .. MaxUpdates]
  BY DiscoveryAssumption DEF NoDial
<1>2. NoFailure \in [count: Nat, last: 0 .. MaxClock]
  BY DiscoveryAssumption DEF NoFailure
<1>3. TypeOK
  <2>1. now \in 0 .. MaxClock /\ updates \in 0 .. MaxUpdates
    BY DiscoveryAssumption DEF Init
  <2>0. up \in BOOLEAN
    BY DEF Init
  <2>2. known \in [Ids -> Record \cup {NoRec}] /\ disk \in [Ids -> Record \cup {NoRec}]
    BY DiscoveryAssumption DEF Init
  <2>3. saves \subseteq [no: 1 .. MaxUpdates, id: Ids, rec: Record]
        /\ conns \in [Ids -> {"none", "added", "up"}]
    BY DEF Init
  <2> QED BY <1>1, <1>2, <2>0, <2>1, <2>2, <2>3 DEF Init, TypeOK
<1>4. Records
  BY DiscoveryAssumption DEF Init, Records, Clean
<1>5. Counted /\ Raced
  BY DEF Init, Counted, Raced
<1> QED BY <1>3, <1>4, <1>5 DEF IndInv

DialType == [pc: {"none", "dial", "conn", "end"}, peer: Ids, no: 0 .. MaxUpdates]
SaveType == [no: 1 .. MaxUpdates, id: Ids, rec: Record]

LEMMA NoDialType == NoDial \in DialType
BY DiscoveryAssumption DEF NoDial, DialType

LEMMA EndingType == \A n \in 0 .. MaxUpdates : Ending(n) \in DialType
BY DiscoveryAssumption DEF Ending, DialType

LEMMA NoFailureType == NoFailure \in [count: Nat, last: 0 .. MaxClock]
BY DiscoveryAssumption DEF NoFailure

\* A change of the table with its snapshot, by whomever, keeps both well typed.
LEMMA UpdateType ==
    ASSUME TypeOK, NEW p \in Ids, NEW rec \in Record, Update(p, rec), Snapshot(p, rec)
    PROVE  /\ known' \in [Ids -> Record \cup {NoRec}]
           /\ saves' \subseteq SaveType
           /\ updates' \in 0 .. MaxUpdates /\ updates + 1 \in 1 .. MaxUpdates
<1>1. updates + 1 \in 1 .. MaxUpdates /\ updates' = updates + 1
  BY DiscoveryAssumption DEF TypeOK, Update
<1>2. [no |-> updates + 1, id |-> p, rec |-> rec] \in SaveType
  BY <1>1 DEF SaveType
<1>3. saves' \subseteq SaveType
  BY <1>2 DEF Snapshot, TypeOK, SaveType
<1>4. known' \in [Ids -> Record \cup {NoRec}]
  BY DEF Update, TypeOK
<1> QED BY <1>1, <1>3, <1>4

LEMMA NextType == TypeOK /\ [Next]_vars => TypeOK'
<1> SUFFICES ASSUME TypeOK, [Next]_vars PROVE TypeOK'
  OBVIOUS
<1>0. now \in 0 .. MaxInt /\ 0 \in Nat /\ 0 \in 0 .. MaxClock
  BY DiscoveryAssumption DEF TypeOK
<1>1. CASE UNCHANGED vars
  BY <1>1 DEF vars, TypeOK
<1>2. CASE Tick
  BY <1>2, DiscoveryAssumption DEF Tick, TypeOK
<1>3. CASE Start
  <2>1. \A p \in Ids : Loaded(p) \in Record \cup {NoRec}
    BY LoadedRecord DEF TypeOK
  <2>2. \A p \in Ids : Loaded(p) # NoRec => Loaded(p).fails \in Nat /\ Loaded(p).lastFail \in 0 .. MaxClock
    BY <2>1 DEF Record
  <2>3. \A p \in Ids : (IF Loaded(p) = NoRec THEN NoFailure
                        ELSE [count |-> Loaded(p).fails, last |-> Loaded(p).lastFail])
                       \in [count: Nat, last: 0 .. MaxClock]
    BY <2>2, NoFailureType
  <2>4. failures' \in [Ids -> [count: Nat, last: 0 .. MaxClock]]
    BY <1>3, <2>3 DEF Start
  <2>5. known' \in [Ids -> Record \cup {NoRec}]
    BY <1>3, <2>1 DEF Start
  <2> QED BY <1>3, <2>4, <2>5 DEF Start, TypeOK
<1>4. CASE Crash
  BY <1>4, NoDialType, NoFailureType DEF Crash, TypeOK, DialType
<1>5. ASSUME NEW h \in Hellos, OnPeerConnected(h) PROVE TypeOK'
  <2> DEFINE rec == [addr |-> h.addr, reachable |-> h.reachable, key |-> h.id,
                     lastSeen |-> now, fails |-> 0, lastFail |-> 0]
  <2>1. h.id \in Ids
    BY DiscoveryAssumption
  <2>2. rec \in Record
    BY HelloRecord
  <2>3. Update(h.id, rec) /\ Snapshot(h.id, rec)
    BY <1>5 DEF OnPeerConnected
  <2> HIDE DEF rec
  <2>4. known' \in [Ids -> Record \cup {NoRec}] /\ saves' \subseteq SaveType
        /\ updates' \in 0 .. MaxUpdates
    BY <2>1, <2>2, <2>3, UpdateType
  <2>5. failures' \in [Ids -> [count: Nat, last: 0 .. MaxClock]]
    BY <1>5, NoFailureType DEF OnPeerConnected, TypeOK
  <2> QED BY <1>5, <2>1, <2>4, <2>5 DEF OnPeerConnected, TypeOK, SaveType
<1>6. ASSUME NEW E \in Exchanges, MergeDiscoveredPeers(E) PROVE TypeOK'
  <2>1. updates + 1 \in 1 .. MaxUpdates /\ updates' = updates + 1 /\ updates' \in 0 .. MaxUpdates
    BY <1>6, DiscoveryAssumption DEF MergeDiscoveredPeers, TypeOK
  <2>2. \A p \in Ids : known'[p] \in Record \cup {NoRec}
    <3> SUFFICES ASSUME NEW p \in Ids PROVE known'[p] \in Record \cup {NoRec}
      OBVIOUS
    <3>1. known[p] \in Record \cup {NoRec}
      BY DEF TypeOK
    <3> QED BY <1>6, <3>1, MergedTable, MergedIsRecord
  <2>3. known' \in [Ids -> Record \cup {NoRec}]
    <3> DEFINE f(p) == IF \E i \in Fresh(E) : i.id = p
                       THEN Merged(known[p], CHOOSE i \in Fresh(E) : i.id = p) ELSE known[p]
    <3>1. known' = [p \in Ids |-> f(p)]
      BY <1>6 DEF MergeDiscoveredPeers
    <3> HIDE DEF f
    <3> QED BY <2>2, <3>1
  <2>4. \A i \in Fresh(E) : [no |-> updates + 1, id |-> i.id, rec |-> Merged(known[i.id], i)] \in SaveType
    <3> SUFFICES ASSUME NEW i \in Fresh(E)
                 PROVE  [no |-> updates + 1, id |-> i.id, rec |-> Merged(known[i.id], i)] \in SaveType
      OBVIOUS
    <3>1. i \in Info /\ i.id \in Ids
      BY FreshEntries
    <3>2. Merged(known[i.id], i) \in Record
      BY <3>1, MergedIsRecord DEF TypeOK
    <3> QED BY <2>1, <3>1, <3>2 DEF SaveType
  <2>5. saves' \subseteq SaveType
    BY <1>6, <2>4 DEF MergeDiscoveredPeers, TypeOK, SaveType
  <2> QED BY <1>6, <2>1, <2>3, <2>5 DEF MergeDiscoveredPeers, TypeOK, SaveType
<1>7. ASSUME NEW s \in saves, SaveKnownPeer(s) \/ SaveFails(s) PROVE TypeOK'
  <2>1. s.id \in Ids /\ s.rec \in Record
    BY DEF TypeOK
  <2> QED BY <1>7, <2>1 DEF SaveKnownPeer, SaveFails, TypeOK
<1>8. ASSUME NEW p \in Ids, AddPeer(p) PROVE TypeOK'
  BY <1>8 DEF AddPeer, TypeOK
<1>9. ASSUME NEW p \in Ids, RemovePeer(p) PROVE TypeOK'
  <2>1. Ending(0) \in DialType
    BY EndingType, DiscoveryAssumption
  <2>2. dials' \in [Ids -> DialType]
    BY <1>9, <2>1 DEF RemovePeer, TypeOK, DialType
  <2> QED BY <1>9, <2>2 DEF RemovePeer, TypeOK, DialType
<1>10. ASSUME NEW p \in Ids, DialFails(p) PROVE TypeOK'
  <2>1. CASE known[p] = NoRec
    <3>1. dials' \in [Ids -> DialType]
      BY <1>10, <2>1, NoDialType DEF DialFails, TypeOK, DialType
    <3> QED BY <1>10, <2>1, <3>1 DEF DialFails, TypeOK, DialType
  <2>2. CASE known[p] # NoRec
    <3> DEFINE rec == [addr |-> known[p].addr, reachable |-> known[p].reachable,
                       key |-> known[p].key, lastSeen |-> known[p].lastSeen,
                       fails |-> known[p].fails + 1, lastFail |-> now]
    <3>2. rec \in Record
      BY <2>2, FailedRecord
    <3>3. Update(p, rec) /\ Snapshot(p, rec)
      BY <1>10, <2>2 DEF DialFails
    <3> HIDE DEF rec
    <3>4. known' \in [Ids -> Record \cup {NoRec}] /\ saves' \subseteq SaveType
          /\ updates' \in 0 .. MaxUpdates /\ updates + 1 \in 1 .. MaxUpdates
      BY <3>2, <3>3, UpdateType
    <3>5. Ending(updates + 1) \in DialType
      BY <3>4, EndingType
    <3>6. dials' \in [Ids -> DialType]
      BY <1>10, <2>2, <3>5 DEF DialFails, TypeOK, DialType
    <3>7. failures' \in [Ids -> [count: Nat, last: 0 .. MaxClock]]
      BY <1>10, <2>2 DEF DialFails, TypeOK
    <3> QED BY <1>10, <3>4, <3>6, <3>7 DEF DialFails, TypeOK, DialType, SaveType
  <2> QED BY <2>1, <2>2
<1>11. ASSUME NEW p \in Ids, DialDone(p) PROVE TypeOK'
  BY <1>11, NoDialType DEF DialDone, TypeOK, DialType
<1>12. ASSUME NEW p \in Ids, NEW q \in Ids, DialConnects(p, q) PROVE TypeOK'
  <2>1. [pc |-> "conn", peer |-> q, no |-> 0] \in DialType
    BY DiscoveryAssumption DEF TypeOK, DialType
  <2> QED BY <1>12, <2>1 DEF DialConnects, TypeOK, DialType
<1>13. ASSUME NEW S \in SUBSET Ids, TryDiscoveryDials(S) PROVE TypeOK'
  <2>1. \A p \in S : [pc |-> "dial", peer |-> Self, no |-> 0] \in DialType
    <3> SUFFICES ASSUME NEW p \in S
                 PROVE  [pc |-> "dial", peer |-> Self, no |-> 0] \in DialType
      OBVIOUS
    <3>1. known[p] \in Record
      BY <1>13 DEF TryDiscoveryDials, Candidates, Candidate, TypeOK
    <3>2. known[p].addr \in AnyAddr
      BY <3>1 DEF Record
    <3> QED BY <3>2, DiscoveryAssumption DEF DialType
  <2>2. dials' \in [Ids -> DialType]
    BY <1>13, <2>1 DEF TryDiscoveryDials, TypeOK, DialType
  <2> QED BY <1>13, <2>2 DEF TryDiscoveryDials, TypeOK, DialType
<1> QED BY <1>1, <1>2, <1>3, <1>4, <1>5, <1>6, <1>7, <1>8, <1>9, <1>10, <1>11, <1>12, <1>13
        DEF Next

-----------------------------------------------------------------------------
(* Records and failures.                                                    *)

\* The table is left alone, but for one record at most that keeps its key.
LEMMA RecordsStep == TypeOK /\ Records /\ [Next]_vars => Records'
<1> SUFFICES ASSUME TypeOK, Records, [Next]_vars PROVE Records'
  OBVIOUS
<1>1. CASE UNCHANGED <<known, disk, saves>>
  BY <1>1 DEF Records
<1>2. CASE Start
  BY <1>2, LoadedRecord DEF Start, Records
<1>3. CASE Crash
  BY <1>3 DEF Crash, Records
<1>4. ASSUME NEW h \in Hellos, OnPeerConnected(h) PROVE Records'
  <2> DEFINE rec == [addr |-> h.addr, reachable |-> h.reachable, key |-> h.id,
                     lastSeen |-> now, fails |-> 0, lastFail |-> 0]
  <2>1. h.id \in Ids /\ known' = [known EXCEPT ![h.id] = rec] /\ disk' = disk
        /\ saves' = saves \cup {[no |-> updates + 1, id |-> h.id, rec |-> rec]}
    BY <1>4, DiscoveryAssumption DEF OnPeerConnected, Update, Snapshot
  <2>2. Clean(rec) /\ rec.key = h.id
    BY DEF Clean
  <2> HIDE DEF rec
  <2> QED BY <2>1, <2>2 DEF Records, TypeOK
<1>5. ASSUME NEW E \in Exchanges, MergeDiscoveredPeers(E) PROVE Records'
  <2>1. ASSUME NEW p \in Ids, NEW i \in Info
        PROVE  Clean(Merged(known[p], i)) /\ Merged(known[p], i).key = i.key
    <3>1. known[p] \in Record \cup {NoRec}
      BY DEF TypeOK
    <3>2. CASE known[p] = NoRec
      BY <2>1, <3>1, <3>2, MergedIsRecord DEF Clean
    <3>3. CASE known[p] # NoRec
      BY <2>1, <3>1, <3>3, MergedIsRecord DEF Records, Clean
    <3> QED BY <3>2, <3>3
  <2>2. ASSUME NEW p \in Ids, known'[p] # NoRec
        PROVE  known'[p].key \in {NoKey, p} /\ Clean(known'[p])
    BY <1>5, <2>1, <2>2, MergedTable DEF Records
  <2>3. \A s \in saves' : Clean(s.rec)
    <3> SUFFICES ASSUME NEW i \in Fresh(E) PROVE Clean(Merged(known[i.id], i))
      BY <1>5 DEF MergeDiscoveredPeers, Records
    <3> QED BY <2>1, FreshEntries
  <2> QED BY <1>5, <2>2, <2>3 DEF MergeDiscoveredPeers, Records
<1>6. ASSUME NEW s \in saves, SaveKnownPeer(s) \/ SaveFails(s) PROVE Records'
  <2>1. s.id \in Ids /\ Clean(s.rec)
    BY DEF TypeOK, Records
  <2> QED BY <1>6, <2>1 DEF SaveKnownPeer, SaveFails, Records, TypeOK
<1>7. ASSUME NEW p \in Ids, DialFails(p) PROVE Records'
  <2>1. CASE known[p] = NoRec
    BY <1>7, <2>1 DEF DialFails, Records
  <2>2. CASE known[p] # NoRec
    <3> DEFINE rec == [addr |-> known[p].addr, reachable |-> known[p].reachable,
                       key |-> known[p].key, lastSeen |-> known[p].lastSeen,
                       fails |-> known[p].fails + 1, lastFail |-> now]
    <3>1. known' = [known EXCEPT ![p] = rec] /\ disk' = disk
          /\ saves' = saves \cup {[no |-> updates + 1, id |-> p, rec |-> rec]}
      BY <1>7, <2>2 DEF DialFails, Update, Snapshot
    <3>2. known[p].fails \in Nat
      BY <2>2 DEF TypeOK, Record
    <3>3. Clean(rec) /\ rec.key = known[p].key
      BY <2>2, <3>2, FailedRecord DEF Clean
    <3> HIDE DEF rec
    <3> QED BY <2>2, <3>1, <3>3 DEF Records, TypeOK
  <2> QED BY <2>1, <2>2
<1> QED BY <1>1, <1>2, <1>3, <1>4, <1>5, <1>6, <1>7
        DEF Next, vars, Tick, AddPeer, RemovePeer, DialDone, DialConnects, TryDiscoveryDials

\* What Counted says of a node with a record and of one without.
LEMMA CountedAt ==
    ASSUME Counted, NEW p \in Ids
    PROVE  /\ known[p] = NoRec => failures[p] = NoFailure
           /\ known[p] # NoRec => /\ failures[p] = [count |-> known[p].fails, last |-> known[p].lastFail]
                                  /\ failures[p].count = known[p].fails
                                  /\ failures[p].last = known[p].lastFail
<1>1. CASE known[p] = NoRec
  BY <1>1 DEF Counted
<1>2. CASE known[p] # NoRec
  <2>1. failures[p] = [count |-> known[p].fails, last |-> known[p].lastFail]
    BY <1>2 DEF Counted
  <2> QED BY <1>2, <2>1
<1> QED BY <1>1, <1>2

\* The count of failures and the record of the table change together.
LEMMA CountedStep == TypeOK /\ Counted /\ [Next]_vars => Counted'
<1> SUFFICES ASSUME TypeOK, Counted, [Next]_vars PROVE Counted'
  OBVIOUS
<1>1. CASE UNCHANGED <<known, failures>>
  BY <1>1 DEF Counted
<1>2. CASE Start
  BY <1>2 DEF Start, Counted
<1>3. CASE Crash
  BY <1>3 DEF Crash, Counted
<1>4. ASSUME NEW h \in Hellos, OnPeerConnected(h) PROVE Counted'
  <2> DEFINE rec == [addr |-> h.addr, reachable |-> h.reachable, key |-> h.id,
                     lastSeen |-> now, fails |-> 0, lastFail |-> 0]
  <2>1. h.id \in Ids /\ known' = [known EXCEPT ![h.id] = rec]
        /\ failures' = [failures EXCEPT ![h.id] = NoFailure]
    BY <1>4, DiscoveryAssumption DEF OnPeerConnected, Update
  <2>2. rec.fails = 0 /\ rec.lastFail = 0 /\ rec # NoRec
    BY HelloRecord
  <2> HIDE DEF rec
  <2>3. ASSUME NEW p \in Ids
        PROVE  failures'[p] = IF known'[p] = NoRec THEN NoFailure
                              ELSE [count |-> known'[p].fails, last |-> known'[p].lastFail]
    <3>1. CASE p = h.id
      BY <2>1, <2>2, <3>1 DEF NoFailure, TypeOK
    <3>2. CASE p # h.id
      BY <2>1, <3>2 DEF Counted, TypeOK
    <3> QED BY <3>1, <3>2
  <2> QED BY <2>3 DEF Counted
<1>5. ASSUME NEW E \in Exchanges, MergeDiscoveredPeers(E) PROVE Counted'
  <2> SUFFICES ASSUME NEW p \in Ids
               PROVE  failures'[p] = IF known'[p] = NoRec THEN NoFailure
                                     ELSE [count |-> known'[p].fails, last |-> known'[p].lastFail]
    BY DEF Counted
  <2>1. failures' = failures /\ known[p] \in Record \cup {NoRec}
    BY <1>5 DEF MergeDiscoveredPeers, TypeOK
  <2>2. CASE known'[p] = known[p]
    BY <2>1, <2>2 DEF Counted
  <2>3. ASSUME NEW i \in Info, known'[p] = Merged(known[p], i)
        PROVE  failures'[p] = IF known'[p] = NoRec THEN NoFailure
                              ELSE [count |-> known'[p].fails, last |-> known'[p].lastFail]
    <3>1. known'[p] \in Record /\ known'[p] # NoRec
      BY <2>1, <2>3, MergedIsRecord, DiscoveryAssumption
    <3>2. CASE known[p] = NoRec
      <4>1. known'[p].fails = 0 /\ known'[p].lastFail = 0
        BY <2>1, <2>3, <3>2, MergedIsRecord
      <4> QED BY <2>1, <3>1, <3>2, <4>1, CountedAt DEF NoFailure
    <3>3. CASE known[p] # NoRec
      <4>1. known'[p].fails = known[p].fails /\ known'[p].lastFail = known[p].lastFail
        BY <2>1, <2>3, <3>3, MergedIsRecord
      <4> QED BY <2>1, <3>1, <3>3, <4>1, CountedAt
    <3> QED BY <3>2, <3>3
  <2> QED BY <1>5, <2>2, <2>3, MergedTable
<1>6. ASSUME NEW p \in Ids, DialFails(p) PROVE Counted'
  <2>1. CASE known[p] = NoRec
    BY <1>6, <2>1 DEF DialFails, Counted
  <2>2. CASE known[p] # NoRec
    <3> DEFINE rec == [addr |-> known[p].addr, reachable |-> known[p].reachable,
                       key |-> known[p].key, lastSeen |-> known[p].lastSeen,
                       fails |-> known[p].fails + 1, lastFail |-> now]
    <3>1. known' = [known EXCEPT ![p] = rec]
          /\ failures' = [failures EXCEPT ![p] = [count |-> failures[p].count + 1, last |-> now]]
      BY <1>6, <2>2 DEF DialFails, Update
    <3>2. rec.fails = known[p].fails + 1 /\ rec.lastFail = now /\ rec # NoRec
      BY <2>2, FailedRecord
    <3>3. failures[p].count = known[p].fails
      BY <2>2, CountedAt
    <3> HIDE DEF rec
    <3>4. ASSUME NEW q \in Ids
          PROVE  failures'[q] = IF known'[q] = NoRec THEN NoFailure
                                ELSE [count |-> known'[q].fails, last |-> known'[q].lastFail]
      <4>1. CASE q = p
        BY <3>1, <3>2, <3>3, <4>1 DEF TypeOK
      <4>2. CASE q # p
        BY <3>1, <4>2 DEF Counted, TypeOK
      <4> QED BY <4>1, <4>2
    <3> QED BY <3>4 DEF Counted
  <2> QED BY <2>1, <2>2
<1> QED BY <1>1, <1>2, <1>3, <1>4, <1>5, <1>6
        DEF Next, vars, Tick, AddPeer, RemovePeer, DialDone, DialConnects, TryDiscoveryDials,
            SaveKnownPeer, SaveFails

\* Nobody starts to dial a node that is connected, and the dial that was under way
\* when it connected can fail once.
LEMMA RacedStep == TypeOK /\ Raced /\ [Next]_vars => Raced'
<1> SUFFICES ASSUME TypeOK, Raced, [Next]_vars PROVE Raced'
  OBVIOUS
<1>1. CASE UNCHANGED <<up, known, conns, dials>>
  BY <1>1 DEF Raced
<1>2. CASE Start
  BY <1>2 DEF Start, Raced
<1>3. CASE Crash
  BY <1>3 DEF Crash, Raced
<1>4. ASSUME NEW h \in Hellos, OnPeerConnected(h) PROVE Raced'
  <2> DEFINE rec == [addr |-> h.addr, reachable |-> h.reachable, key |-> h.id,
                     lastSeen |-> now, fails |-> 0, lastFail |-> 0]
  <2>1. h.id \in Ids /\ known' = [known EXCEPT ![h.id] = rec] /\ up /\ up' /\ dials' = dials
        /\ conns' = [conns EXCEPT ![h.id] = "up"]
    BY <1>4, DiscoveryAssumption DEF OnPeerConnected, Update
  <2>2. rec.fails = 0 /\ rec # NoRec
    BY HelloRecord
  <2> HIDE DEF rec
  <2> QED BY <2>1, <2>2 DEF Raced, TypeOK
<1>5. ASSUME NEW E \in Exchanges, MergeDiscoveredPeers(E) PROVE Raced'
  <2>1. UNCHANGED <<up, conns, dials>>
    BY <1>5 DEF MergeDiscoveredPeers
  <2>2. ASSUME NEW p \in Ids, conns[p] = "up"
        PROVE  known'[p] # NoRec /\ known'[p].fails = known[p].fails
    <3>1. known[p] \in Record /\ known[p] # NoRec
      BY <2>2 DEF Raced, TypeOK
    <3> QED BY <1>5, <3>1, MergedTable, MergedIsRecord, DiscoveryAssumption
  <2> QED BY <2>1, <2>2 DEF Raced
<1>6. ASSUME NEW p \in Ids, AddPeer(p) PROVE Raced'
  BY <1>6 DEF AddPeer, Raced, TypeOK
<1>7. ASSUME NEW p \in Ids, RemovePeer(p) PROVE Raced'
  BY <1>7 DEF RemovePeer, Raced, TypeOK, Ending
<1>8. ASSUME NEW p \in Ids, DialFails(p) PROVE Raced'
  <2>1. CASE known[p] = NoRec
    BY <1>8, <2>1 DEF DialFails, Raced, TypeOK, NoDial
  <2>2. CASE known[p] # NoRec
    <3> DEFINE rec == [addr |-> known[p].addr, reachable |-> known[p].reachable,
                       key |-> known[p].key, lastSeen |-> known[p].lastSeen,
                       fails |-> known[p].fails + 1, lastFail |-> now]
    <3>1. up /\ up' /\ conns' = conns /\ dials[p].pc = "dial" /\ known' = [known EXCEPT ![p] = rec]
          /\ dials' = [dials EXCEPT ![p] = Ending(updates + 1)] /\ Ending(updates + 1).pc = "end"
      BY <1>8, <2>2 DEF DialFails, Update, Ending
    <3>2. rec.fails = known[p].fails + 1 /\ rec # NoRec
      BY <2>2, FailedRecord
    <3> HIDE DEF rec
    <3>3. ASSUME NEW q \in Ids, conns'[q] = "up"
          PROVE  known'[q] # NoRec
                 /\ (known'[q].fails = 0 \/ (known'[q].fails = 1 /\ dials'[q].pc # "dial"))
      <4>1. CASE q = p
        BY <3>1, <3>2, <3>3, <4>1 DEF Raced, TypeOK
      <4>2. CASE q # p
        BY <3>1, <3>3, <4>2 DEF Raced, TypeOK
      <4> QED BY <4>1, <4>2
    <3> QED BY <3>1, <3>3 DEF Raced
  <2> QED BY <2>1, <2>2
<1>9. ASSUME NEW p \in Ids, DialDone(p) PROVE Raced'
  BY <1>9 DEF DialDone, Raced, TypeOK, NoDial
<1>10. ASSUME NEW p \in Ids, NEW q \in Ids, DialConnects(p, q) PROVE Raced'
  BY <1>10 DEF DialConnects, Raced, TypeOK
<1>11. ASSUME NEW S \in SUBSET Ids, TryDiscoveryDials(S) PROVE Raced'
  BY <1>11 DEF TryDiscoveryDials, Candidates, Candidate, Raced, TypeOK
<1> QED BY <1>1, <1>2, <1>3, <1>4, <1>5, <1>6, <1>7, <1>8, <1>9, <1>10, <1>11
        DEF Next, vars, Tick, SaveKnownPeer, SaveFails

-----------------------------------------------------------------------------
\* Every step keeps the inductive invariant.
LEMMA NextInd == IndInv /\ [Next]_vars => IndInv'
BY NextType, RecordsStep, CountedStep, RacedStep DEF IndInv

\* The inductive invariant of the table holds in every reachable state, over any
\* number of crashes and restarts.
THEOREM Invariance == Spec => []IndInv
BY InitInd, NextInd, PTL DEF Spec

\* Every variable keeps its type; in particular no time that a peer claims makes a
\* LastSeen negative (safeLastSeen).
THEOREM TypeCorrect == Spec => []TypeOK
<1>1. IndInv => TypeOK
  BY DEF IndInv
<1> QED BY <1>1, Invariance, PTL

\* buildPeerInfoList sends only what mergeDiscoveredPeers of any node accepts.
THEOREM ExchangeAcceptedHolds == Spec => []ExchangeAccepted
<1>1. IndInv => ExchangeAccepted
  BY DEF IndInv, Records, ExchangeAccepted, Exchanged, Acceptable, PeerInfo
<1> QED BY <1>1, Invariance, PTL

\* A dial that loses against an inbound connection costs one failure at most.
THEOREM LostRaceCountsOnceHolds == Spec => []LostRaceCountsOnce
<1>1. IndInv => LostRaceCountsOnce
  BY DEF IndInv, Raced, LostRaceCountsOnce
<1> QED BY <1>1, Invariance, PTL

\* Only tryDiscoveryDials starts a dial, and it waits for the backoff of all the
\* failures there were, across changes of the address and restarts.
LEMMA SpacedStep ==
    ASSUME IndInv, [Next]_vars, NEW p \in Ids, dials[p] = NoDial, dials'[p].pc = "dial"
    PROVE  now >= failures[p].last + Backoff(failures[p].count)
<1>1. PICK S \in SUBSET Ids : TryDiscoveryDials(S)
  <2>0. NoDial.pc = "none"
    BY DEF NoDial
  <2>1. CASE UNCHANGED dials
    BY <2>0, <2>1
  <2>2. CASE Crash \/ \E q \in Ids : RemovePeer(q) \/ DialDone(q)
    BY <2>0, <2>2 DEF Crash, RemovePeer, DialDone, IndInv, TypeOK
  <2>3. CASE \E q \in Ids : DialFails(q) \/ \E r \in Ids : DialConnects(q, r)
    BY <2>0, <2>3 DEF DialFails, DialConnects, IndInv, TypeOK
  <2> QED BY <2>1, <2>2, <2>3 DEF Next, vars, Tick, Start, OnPeerConnected,
             MergeDiscoveredPeers, SaveKnownPeer, SaveFails, AddPeer
<1>2. p \in S
  BY <1>1 DEF TryDiscoveryDials, NoDial
<1>3. known[p] # NoRec /\ (known[p].fails > 0 => now >= known[p].lastFail + Backoff(known[p].fails))
  BY <1>1, <1>2 DEF TryDiscoveryDials, Candidates, Candidate
<1>4. known[p].fails \in Nat /\ now \in Nat /\ (known[p].fails = 0 => known[p].lastFail = 0)
  BY <1>3 DEF IndInv, TypeOK, Record, Records, Clean
<1>5. failures[p].count = known[p].fails /\ failures[p].last = known[p].lastFail
  BY <1>3, CountedAt DEF IndInv
<1>6. Backoff(0) = 0
  BY DEF Backoff
<1>7. CASE known[p].fails = 0
  BY <1>4, <1>5, <1>6, <1>7
<1>8. CASE known[p].fails > 0
  BY <1>3, <1>5, <1>8
<1> QED BY <1>4, <1>7, <1>8

\* Failed dials of a peer keep the distance of their backoff, however often its
\* address changes and the process is restarted (tryDiscoveryDials).
THEOREM RetriesSpacedHolds == Spec => RetriesSpaced
<1>1. IndInv /\ [Next]_vars =>
        [\A p \in Ids : dials[p] = NoDial /\ dials'[p].pc = "dial"
           => now >= failures[p].last + Backoff(failures[p].count)]_vars
  BY SpacedStep
<1> QED BY <1>1, Invariance, PTL DEF Spec, RetriesSpaced
=============================================================================
