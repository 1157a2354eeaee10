--------------------------- MODULE LifecycleProofs ---------------------------
(***************************************************************************)
(* Proofs about the beginning and the end of a node's life.                *)
(*                                                                         *)
(* Startup: for any number of processes on one data directory and any set  *)
(* of configurations, a node keeps its identity, if no two processes       *)
(* create it at the same time, and advertises what peers accept, with the  *)
(* one exception that is named.                                            *)
(*                                                                         *)
(* Shutdown: for any number of clients and peers and any capacity of the   *)
(* hub's queue, no goroutine of the SSH server survives a Stop that ends   *)
(* without its timeout.                                                    *)
(***************************************************************************)
EXTENDS Startup, Shutdown, FiniteSetTheorems, TLAPS

Stages ==
    {"down", "load", "generate", "openKey", "writeKey", "openPub", "writePub",
     "store", "serve", "running", "unbound", "failed"}

\* A process that has found no node.key and has not yet written one, and one
\* that has an identity in memory.
Creating == {"generate", "openKey", "writeKey"}
Holding == {"openPub", "writePub", "store", "serve", "running"}

Types ==
    /\ stage \in [Procs -> Stages]
    /\ cfg \in [Procs -> Configs]
    /\ mem \in [Procs -> Keys \cup {"absent"}]
    /\ key \in Keys \cup {"absent", "torn"}

\* Only a configuration that Validate has passed gets beyond the start.
Validated == \A p \in Procs : stage[p] # "down" => Validate(cfg[p])

\* node.key is missing, torn or whole according to how far the process is that
\* creates it, and whoever has an identity in memory has the one on disk.
OnDisk ==
    \A p \in Procs :
        /\ stage[p] \in {"generate", "openKey"} => key = "absent"
        /\ stage[p] = "writeKey" => key = "torn"
        /\ stage[p] \in {"openKey", "writeKey"} => mem[p] \in Keys
        /\ stage[p] \in Holding => key \in Keys /\ mem[p] = key

\* The node has never been on the network with another identity than the one on
\* disk: node.key is never truncated once it has been used.
RanWithIt == \A k \in ran : key \in Keys /\ k = key

IndInv == Types /\ OnDisk /\ RanWithIt

\* No two processes create an identity at the same time.  Load and generate do
\* not see to it: data.db, the only file that is locked, is opened after them.
CreateAlone ==
    \A p, q \in Procs : stage[p] \in Creating /\ stage[q] \in Creating => p = q

USE DEF Stages, Creating, Holding

-----------------------------------------------------------------------------
(* Types and the configuration: no assumption on who overlaps whom.         *)

LEMMA InitTypes == Init => Types /\ Validated
  BY DEF Init, Types, Validated, NoKey

LEMMA BootTypes ==
  ASSUME Types, NEW p \in Procs, Boot(p)
  PROVE  Types'
  <1> USE DEF Types, Step
  <1>1. CASE Start(p)
    BY <1>1 DEF Start
  <1>2. CASE Load(p)
    BY <1>2 DEF Load
  <1>3. CASE Generate(p)
    BY <1>3 DEF Generate
  <1>4. CASE OpenKey(p) \/ WriteKey(p)
    <2>1. CASE OpenKey(p)
      BY <2>1 DEF OpenKey
    <2>2. CASE WriteKey(p)
      BY <2>2 DEF WriteKey
    <2>3. QED
      BY <1>4, <2>1, <2>2
  <1>5. CASE OpenPub(p)
    BY <1>5 DEF OpenPub
  <1>6. CASE WritePub(p)
    BY <1>6 DEF WritePub
  <1>7. CASE OpenStore(p)
    BY <1>7 DEF OpenStore
  <1>8. CASE Serve(p)
    BY <1>8 DEF Serve
  <1>9. QED
    BY <1>1, <1>2, <1>3, <1>4, <1>5, <1>6, <1>7, <1>8 DEF Boot

LEMMA NextTypes == Types /\ [Next]_vars => Types'
  <1> SUFFICES ASSUME Types, [Next]_vars
               PROVE  Types'
    OBVIOUS
  <1>1. ASSUME NEW p \in Procs, Boot(p)
        PROVE  Types'
    BY <1>1, BootTypes
  <1>2. ASSUME NEW p \in Procs, WriteError(p)
        PROVE  Types'
    BY <1>2 DEF WriteError, Types
  <1>3. ASSUME NEW p \in Procs, Exit(p)
        PROVE  Types'
    BY <1>3 DEF Exit, Step, Types, NoKey
  <1>4. ASSUME NEW p \in Procs, Crash(p)
        PROVE  Types'
    BY <1>4 DEF Crash, Types, NoKey
  <1>5. CASE UNCHANGED vars
    BY <1>5 DEF vars, Types
  <1>6. QED
    BY <1>1, <1>2, <1>3, <1>4, <1>5 DEF Next

\* A process leaves "down" only through Validate, and cfg does not change.
LEMMA NextValidated == Types /\ Validated /\ [Next]_vars => Validated'
  <1> SUFFICES ASSUME Types, Validated, [Next]_vars
               PROVE  Validated'
    OBVIOUS
  <1>1. UNCHANGED cfg
    BY DEF Next, vars, Boot, Start, Load, Generate, OpenKey, WriteKey, OpenPub, WritePub,
           OpenStore, Serve, WriteError, Exit, Crash, Step
  <1>2. ASSUME NEW p \in Procs, stage'[p] # "down"
        PROVE  stage[p] # "down" \/ Validate(cfg[p])
    <2>1. CASE \E q \in Procs : Start(q)
      BY <1>2, <2>1 DEF Start, Step, Types
    <2>2. CASE \E q \in Procs : Load(q) \/ Generate(q) \/ OpenKey(q) \/ WriteKey(q) \/ OpenPub(q)
                                  \/ WritePub(q) \/ OpenStore(q) \/ Serve(q)
      BY <1>2, <2>2 DEF Load, Generate, OpenKey, WriteKey, OpenPub, WritePub,
                        OpenStore, Serve,
                        Step, Types
    <2>3. CASE \E q \in Procs : WriteError(q) \/ Exit(q) \/ Crash(q)
      BY <1>2, <2>3 DEF WriteError, Writing, Exit, Crash, Step, Types
    <2>4. CASE UNCHANGED vars
      BY <1>2, <2>4 DEF vars
    <2>5. QED
      BY <2>1, <2>2, <2>3, <2>4 DEF Next, Boot
  <1>3. QED
    BY <1>1, <1>2 DEF Validated

\* validatePeerAddr and the listen address leave nothing that isInvalidPeerAddr
\* refuses, but for what becomes an address only when it is trimmed.
LEMMA ValidIsAccepted ==
  ASSUME NEW c, Validate(c)
  PROVE  isInvalidPeerAddr(advertiseAddr(c)) => advertiseAddr(c) \in {"empty", "padded6"}
  <1>1. CASE c.advertise # "empty"
    <2>1. c.advertise \in HostAndPort /\ c.advertise # "wild"
      BY <1>1 DEF Validate, validateAddresses, validatePeerAddr
    <2>2. advertiseAddr(c) = c.advertise
      BY <1>1 DEF advertiseAddr
    <2>3. QED
      BY <2>1, <2>2 DEF isInvalidPeerAddr
  <1>2. CASE c.advertise = "empty"
    <2>1. advertiseAddr(c) \in {"good", "empty"}
      BY <1>2 DEF advertiseAddr
    <2>2. "good" \in HostAndPort \ {"padded6"} /\ "good" # "wild"
      BY DEF HostAndPort
    <2>3. QED
      BY <2>1, <2>2 DEF isInvalidPeerAddr
  <1>3. QED
    BY <1>1, <1>2

\* A node that serves, with any configuration, advertises nothing or an address
\* that its peers put into their tables, unless it was told to advertise a
\* bracketed IPv6 address with white space before it.
THEOREM AdvertisedAcceptedHolds == Spec => []AdvertisedAccepted
  <1>1. Types /\ Validated => AdvertisedAccepted
    BY ValidIsAccepted DEF Validated, AdvertisedAccepted
  <1>2. QED
    BY <1>1, InitTypes, NextTypes, NextValidated, PTL DEF Spec

-----------------------------------------------------------------------------
(* The identity.                                                            *)

LEMMA InitIndInv == Init => IndInv
  <1> SUFFICES ASSUME Init
               PROVE  IndInv
    OBVIOUS
  <1>1. Types
    BY InitTypes
  <1>2. OnDisk /\ RanWithIt
    BY DEF Init, OnDisk, RanWithIt
  <1>3. QED
    BY <1>1, <1>2 DEF IndInv

\* Steps of main and of identity.Load and generate.
LEMMA BootOnDisk ==
  ASSUME IndInv, CreateAlone, NEW p \in Procs, Boot(p)
  PROVE  OnDisk' /\ RanWithIt'
  <1> USE StartupAssumption DEF IndInv, Types, Step, OnDisk, RanWithIt
  <1>1. CASE Start(p)
    BY <1>1 DEF Start
  <1>2. CASE Load(p)
    BY <1>2 DEF Load
  <1>3. CASE Generate(p)
    BY <1>3 DEF Generate
  <1>4. CASE OpenKey(p)
    BY <1>4 DEF OpenKey, CreateAlone
  <1>5. CASE WriteKey(p)
    BY <1>5 DEF WriteKey, CreateAlone
  <1>6. CASE OpenPub(p)
    BY <1>6 DEF OpenPub
  <1>7. CASE WritePub(p)
    BY <1>7 DEF WritePub
  <1>8. CASE OpenStore(p)
    BY <1>8 DEF OpenStore
  <1>9. CASE Serve(p)
    BY <1>9 DEF Serve
  <1>10. QED
    BY <1>1, <1>2, <1>3, <1>4, <1>5, <1>6, <1>7, <1>8, <1>9 DEF Boot

LEMMA NextIndInv == IndInv /\ CreateAlone /\ [Next]_vars => IndInv'
  <1> SUFFICES ASSUME IndInv, CreateAlone, [Next]_vars
               PROVE  IndInv'
    OBVIOUS
  <1>1. Types'
    BY NextTypes DEF IndInv
  <1>2. ASSUME NEW p \in Procs, WriteError(p) \/ Exit(p) \/ Crash(p)
        PROVE  OnDisk' /\ RanWithIt'
    <2> USE DEF IndInv, Types, OnDisk, RanWithIt
    <2>1. CASE WriteError(p)
      BY <2>1 DEF WriteError
    <2>2. CASE Exit(p)
      BY <2>2 DEF Exit, Step
    <2>3. CASE Crash(p)
      BY <2>3 DEF Crash
    <2>4. QED
      BY <1>2, <2>1, <2>2, <2>3
  <1>3. CASE UNCHANGED vars
    BY <1>3 DEF vars, IndInv, OnDisk, RanWithIt, Types
  <1>4. QED
    BY <1>1, <1>2, <1>3, BootOnDisk DEF Next, IndInv

LEMMA RanOnce ==
  ASSUME RanWithIt
  PROVE  IdentityKept
  <1>1. CASE ran = {}
    BY <1>1, FS_EmptySet DEF IdentityKept
  <1>2. CASE ran # {}
    <2>1. ran = {key}
      BY <1>2 DEF RanWithIt
    <2>2. Cardinality(ran) = 1
      BY <2>1, FS_Singleton
    <2>3. QED
      BY <2>2 DEF IdentityKept
  <1>3. QED
    BY <1>1, <1>2

\* As long as no two processes create an identity at the same time, all that
\* ever get to the network have the same one, however many processes there are,
\* wherever they are killed and whichever write fails.
THEOREM IdentityKeptIfCreatedAlone == Spec /\ []CreateAlone => []IdentityKept
  <1>1. IndInv => IdentityKept
    BY RanOnce DEF IndInv
  <1>2. QED
    BY <1>1, InitIndInv, NextIndInv, PTL DEF Spec

\* In particular if processes are started one after the other: then nothing else
\* has to be assumed.
THEOREM IdentityKeptOneAtATime ==
  ASSUME \A p, q \in Procs : p = q
  PROVE  Spec => []IdentityKept
  <1>1. Types => CreateAlone
    BY DEF CreateAlone
  <1>2. Spec => []CreateAlone
    BY <1>1, InitTypes, NextTypes, PTL DEF Spec
  <1>3. QED
    BY <1>2, IdentityKeptIfCreatedAlone, PTL

-----------------------------------------------------------------------------
(* Shutdown.                                                                *)

Handlers == {"none", "handshake", "channels", "waiting", "unwind", "close", "done"}
Terms ==
    {"none", "requests", "joining", "reading", "posting", "leaving", "draining",
     "closing", "done"}

DownTypes ==
    /\ main \in {"run", "cancelled", "transport", "stopping", "drained", "exited"}
    /\ timedOut \in BOOLEAN /\ stopping \in BOOLEAN
    /\ sock \in [Clients -> {"none", "backlog", "open", "closed"}]
    /\ handler \in [Clients -> Handlers]
    /\ term \in [Clients -> Terms]
    /\ printer \in [Clients -> {"none", "on", "done"}]
    /\ joined \subseteq Clients

\* The connection that Serve holds has no goroutine yet, and neither has one
\* that Serve has not accepted.
Unregistered ==
    /\ \A c \in Clients : sock[c] \in {"none", "backlog"} => handler[c] = "none"
    /\ serve = "accepted" =>
         pending \in Clients /\ handler[pending] = "none" /\ sock[pending] \in {"open", "closed"}

\* handleConnection outlives its session (sessionWg).
SessionWithin ==
    \A c \in Clients :
        /\ handler[c] \in {"none", "handshake"} => term[c] = "none"
        /\ handler[c] \in {"unwind", "close", "done"} => term[c] \in {"none", "done"}

\* handleSession outlives its printer, and leaves the hub before it ends.
PrinterWithin ==
    \A c \in Clients :
        /\ term[c] \in {"none", "requests", "joining"} => c \notin joined /\ printer[c] = "none"
        /\ term[c] \in {"draining", "closing", "done"} => c \notin joined
        /\ term[c] \in {"closing", "done"} => printer[c] # "on"

\* Once Stop has returned, no connection has a goroutine and none gets one.
Quiet ==
    /\ main \in {"stopping", "drained", "exited"} => stopping
    /\ (main = "drained" /\ ~timedOut) => \A c \in Clients : handler[c] \in {"none", "done"}

DownInv == DownTypes /\ Unregistered /\ SessionWithin /\ PrinterWithin /\ Quiet

USE DEF Handlers, Terms

-----------------------------------------------------------------------------

LEMMA InitDownInv == DownInit => DownInv
  <1> SUFFICES ASSUME DownInit
               PROVE  DownInv
    OBVIOUS
  <1>1. DownTypes
    BY DEF DownInit, DownTypes
  <1>2. Unregistered /\ SessionWithin /\ PrinterWithin /\ Quiet
    BY DEF DownInit, Unregistered, SessionWithin, PrinterWithin, Quiet
  <1>3. QED
    BY <1>1, <1>2 DEF DownInv

\* Steps of clients: they only touch their socket.
LEMMA ClientSteps ==
  ASSUME DownInv, NEW c \in Clients, Connect(c) \/ Disconnect(c)
  PROVE  DownInv'
  <1> USE DEF DownInv, DownTypes
  <1>1. CASE Connect(c)
    BY <1>1 DEF Connect, Unregistered, SessionWithin, PrinterWithin, Quiet,
                sessions, hub, peers
  <1>2. CASE Disconnect(c)
    BY <1>2 DEF Disconnect, Unregistered, SessionWithin, PrinterWithin, Quiet,
                sessions, hub, peers
  <1>3. QED
    BY <1>1, <1>2

\* Steps of Serve and of the goroutine that closes its listener.
LEMMA ServeSteps ==
  ASSUME DownInv, ServeStep \/ CloseListener
  PROVE  DownInv'
  <1> USE DEF DownInv, DownTypes
  <1>1. CASE Listen
    BY <1>1 DEF Listen, Unregistered, SessionWithin, PrinterWithin, Quiet,
                sessions, hub, peers
  <1>2. CASE AcceptFails
    BY <1>2 DEF AcceptFails, Unregistered, SessionWithin, PrinterWithin, Quiet,
                sessions, hub, peers
  <1>3. ASSUME NEW c \in Clients, Accept(c)
        PROVE  DownInv'
    BY <1>3 DEF Accept, Unregistered, SessionWithin, PrinterWithin, Quiet,
                sessions, hub, peers
  <1>4. CASE Register
    <2>1. CASE stopping
      BY <1>4, <2>1 DEF Register, Unregistered, SessionWithin, PrinterWithin,
                        Quiet, sessions, hub, peers
    <2>2. CASE ~stopping
      BY <1>4, <2>2 DEF Register, Unregistered, SessionWithin, PrinterWithin,
                        Quiet, sessions, hub, peers
    <2>3. QED
      BY <2>1, <2>2
  <1>5. CASE CloseListener
    BY <1>5 DEF CloseListener, Unaccepted, Unregistered, SessionWithin,
                PrinterWithin, Quiet, sessions, hub, peers
  <1>6. QED
    BY <1>1, <1>2, <1>3, <1>4, <1>5 DEF ServeStep

\* Steps of a goroutine handleConnection: there is one only for a registered
\* connection, and none moves once Stop has waited for them all.
LEMMA ConnectionSteps ==
  ASSUME DownInv, NEW c \in Clients, ConnectionStep(c)
  PROVE  DownInv'
  <1> USE DEF DownInv, DownTypes, Handle, hub, peers
  <1>1. CASE Authenticate(c)
    BY <1>1 DEF Authenticate, Unregistered, SessionWithin, PrinterWithin, Quiet
  <1>2. CASE HandshakeFails(c)
    BY <1>2 DEF HandshakeFails, Unregistered, SessionWithin, PrinterWithin, Quiet
  <1>3. CASE OpenSession(c)
    BY <1>3 DEF OpenSession, Unregistered, SessionWithin, PrinterWithin, Quiet
  <1>4. CASE ChannelsEnd(c)
    BY <1>4 DEF ChannelsEnd, Unregistered, SessionWithin, PrinterWithin, Quiet
  <1>5. CASE SessionsDone(c)
    BY <1>5 DEF SessionsDone, Unregistered, SessionWithin, PrinterWithin, Quiet
  <1>6. CASE RemoveConn(c)
    BY <1>6 DEF RemoveConn, Unregistered, SessionWithin, PrinterWithin, Quiet
  <1>7. CASE CloseConn(c)
    BY <1>7 DEF CloseConn, Unregistered, SessionWithin, PrinterWithin, Quiet
  <1>8. QED
    BY <1>1, <1>2, <1>3, <1>4, <1>5, <1>6, <1>7 DEF ConnectionStep

\* Steps of a goroutine handleSession and of its printer.
LEMMA SessionSteps ==
  ASSUME DownInv, NEW c \in Clients, SessionStep(c)
  PROVE  DownInv'
  <1> USE DEF DownInv, DownTypes, Go, server, peers
  <1>1. CASE Shell(c)
    BY <1>1 DEF Shell, Unregistered, SessionWithin, PrinterWithin, Quiet
  <1>2. CASE RequestsEnd(c)
    BY <1>2 DEF RequestsEnd, Unregistered, SessionWithin, PrinterWithin, Quiet
  <1>3. CASE Join(c)
    BY <1>3 DEF Join, Unregistered, SessionWithin, PrinterWithin, Quiet
  <1>4. CASE Type(c)
    BY <1>4 DEF Type, Unregistered, SessionWithin, PrinterWithin, Quiet
  <1>5. CASE Broadcast(c)
    BY <1>5 DEF Broadcast, Unregistered, SessionWithin, PrinterWithin, Quiet
  <1>6. CASE StopReading(c)
    BY <1>6 DEF StopReading, Unregistered, SessionWithin, PrinterWithin, Quiet
  <1>7. CASE Leave(c)
    BY <1>7 DEF Leave, Unregistered, SessionWithin, PrinterWithin, Quiet
  <1>8. CASE PrinterEnds(c)
    BY <1>8 DEF PrinterEnds, hub, Unregistered, SessionWithin,
                PrinterWithin, Quiet
  <1>9. CASE Drained(c)
    BY <1>9 DEF Drained, Unregistered, SessionWithin, PrinterWithin, Quiet
  <1>10. CASE SessionEnds(c)
    BY <1>10 DEF SessionEnds, Unregistered, SessionWithin, PrinterWithin, Quiet
  <1>11. QED
    BY <1>1, <1>2, <1>3, <1>4, <1>5, <1>6, <1>7, <1>8, <1>9, <1>10 DEF SessionStep

\* Steps of main.
LEMMA MainSteps ==
  ASSUME DownInv, main # "exited", Cancel \/ MainStep \/ DrainTimeout
  PROVE  DownInv'
  <1> USE DEF DownInv, DownTypes, sessions, hub, peers
  <1>1. CASE Cancel
    BY <1>1 DEF Cancel, server, Unregistered, SessionWithin,
                PrinterWithin, Quiet
  <1>2. CASE StopTransport
    BY <1>2 DEF StopTransport, server, Unregistered, SessionWithin,
                PrinterWithin, Quiet
  <1>3. CASE StopServer
    BY <1>3 DEF StopServer, Unaccepted, Unregistered, SessionWithin,
                PrinterWithin, Quiet
  <1>4. CASE Drain
    BY <1>4 DEF Drain, server, Unregistered, SessionWithin, PrinterWithin, Quiet
  <1>5. CASE DrainTimeout
    BY <1>5 DEF DrainTimeout, server, Unregistered, SessionWithin,
                PrinterWithin, Quiet
  <1>6. CASE StopHub
    BY <1>6 DEF StopHub, server, Unregistered, SessionWithin,
                PrinterWithin, Quiet
  <1>7. QED
    BY <1>1, <1>2, <1>3, <1>4, <1>5, <1>6 DEF MainStep

\* The hub's loop and the receive loops of the transport.
OtherStep ==
    \/ HubTakes
    \/ \E r \in Receivers :
         AddPeer(r) \/ Receive(r) \/ DeliverRemote(r) \/ ReceiverEnds(r)

LEMMA OtherSteps ==
  ASSUME DownInv, OtherStep
  PROVE  DownInv'
  BY DEF OtherStep, DownInv, DownTypes, Unregistered, SessionWithin, PrinterWithin, Quiet,
         server, sessions, hub,
         HubTakes, AddPeer, Receive, DeliverRemote, ReceiverEnds

LEMMA NextDownInv == DownInv /\ [DownNext]_downVars => DownInv'
  <1> SUFFICES ASSUME DownInv, [DownNext]_downVars
               PROVE  DownInv'
    OBVIOUS
  <1>1. CASE DownNext
    <2>1. main # "exited"
      BY <1>1 DEF DownNext
    <2>2. CASE Cancel \/ MainStep \/ DrainTimeout
      BY <2>1, <2>2, MainSteps
    <2>3. CASE ServeStep \/ CloseListener
      BY <2>3, ServeSteps
    <2>4. ASSUME NEW c \in Clients,
                 Connect(c) \/ Disconnect(c) \/ ConnectionStep(c) \/ SessionStep(c)
          PROVE  DownInv'
      BY <2>4, ClientSteps, ConnectionSteps, SessionSteps
    <2>5. CASE OtherStep
      BY <2>5, OtherSteps
    <2>6. QED
      BY <1>1, <2>2, <2>3, <2>4, <2>5 DEF OtherStep, DownNext
  <1>2. CASE UNCHANGED downVars
    BY <1>2 DEF downVars, server, sessions, hub, DownInv, DownTypes,
                Unregistered, SessionWithin, PrinterWithin, Quiet
  <1>3. QED
    BY <1>1, <1>2

\* The parts of the invariant hold for any sets of clients and peers.
THEOREM DrainInvariance == DownSpec => []DownInv
  BY InitDownInv, NextDownInv, PTL DEF DownSpec

\* When Server.Stop returns before its timeout, no session is left in the hub,
\* no handleSession runs and no printer, whatever clients and peers do.
THEOREM DrainCompleteHolds == DownSpec => []DrainComplete
  <1>1. DownInv => DrainComplete
    BY DEF DownInv, DownTypes, SessionWithin, PrinterWithin, Quiet, DrainComplete
  <1>2. QED
    BY <1>1, DrainInvariance, PTL
=============================================================================
