------------------------------- MODULE Startup -------------------------------
(***************************************************************************)
(* How a node comes up: the configuration (internal/config), the identity  *)
(* on disk (internal/identity) and main up to the moment it serves, over   *)
(* any number of starts and crashes on one data directory.                 *)
(*                                                                         *)
(* A file is absent, torn (opened for writing and not yet written in full, *)
(* so that nobody can parse it) or holds a key.  An address is one of the  *)
(* kinds that the validators, the listener and the peers tell apart.       *)
(***************************************************************************)
EXTENDS Integers, FiniteSets

CONSTANTS
    Procs,      \* processes that are started on the data directory
    Keys,       \* keypairs that may be generated
    Configs,    \* configurations: file, flags and environment
    MaxFaults   \* bound: how often a process is killed or a write fails

\* "" , white space, no colon, ":80", "h:", "0.0.0.0:80", "[0:0:0:0:0:0:0:0]:80",
\* "h:80" and "[v6]:80"; these with white space around them, and "[v6]:80" with
\* white space before the bracket, which only a reader that trims makes sense of.
Addresses == {"empty", "blank", "bare", "nohost", "noport", "wild", "unspec",
              "good", "padded", "padded6"}
Levels == {"", "info", "DEBUG", "loud"}

Config ==
    [listen: Addresses, advertise: Addresses, ssh: Addresses, bootstrap: SUBSET Addresses,
     maxPeers: Int, interval: Int, level: Levels, flagLevel: Levels, envLevel: Levels]

ASSUME StartupAssumption ==
    /\ Configs \subseteq Config
    /\ MaxFaults \in Nat
    /\ {"absent", "torn"} \cap Keys = {}

VARIABLES
    stage,    \* where each process is in main
    cfg,      \* its configuration
    mem,      \* its keypair
    key, pub, \* contents of node.key and node.pub
    lock,     \* the process that has data.db open
    used,     \* keypairs that have been generated
    ran,      \* keypairs with which the node has gone to the network
    faults    \* how often that has happened

vars == <<stage, cfg, mem, key, pub, lock, used, ran, faults>>

NoKey == "absent"
NoProc == "nobody"

Init ==
    /\ stage = [p \in Procs |-> "down"]
    /\ cfg \in [Procs -> Configs]
    /\ mem = [p \in Procs |-> NoKey]
    /\ key = "absent" /\ pub = "absent"
    /\ lock = NoProc
    /\ used = {} /\ ran = {}
    /\ faults = 0

-----------------------------------------------------------------------------
(* Configuration.                                                           *)

\* net.SplitHostPort of the trimmed address finds a host and a port.
HostAndPort == {"wild", "unspec", "good", "padded", "padded6"}

validateListenAddr(a) == a \in HostAndPort

\* Fault: wildcards are not refused.
validatePeerAddrLoose(a) == a \in HostAndPort

\* An unspecified IP address cannot be dialed.
validatePeerAddr(a) == a \in HostAndPort \ {"wild", "unspec"}

validateAddresses(c) ==
    /\ c.listen # "empty" => validateListenAddr(c.listen)
    /\ c.ssh # "empty" => validateListenAddr(c.ssh)
    /\ \A a \in c.bootstrap : validatePeerAddr(a)
    /\ c.advertise # "empty" => validatePeerAddr(c.advertise)

validateNumericFields(c) == c.maxPeers >= 0 /\ c.interval >= 0

validateLogLevel(l) == l # "loud"

\* Flag before file before environment.
LogLevel(c) ==
    IF c.flagLevel # "" THEN c.flagLevel
    ELSE IF c.level # "" THEN c.level ELSE c.envLevel

Validate(c) ==
    validateAddresses(c) /\ validateNumericFields(c) /\ validateLogLevel(LogLevel(c))

\* What net.Listen can bind: it does not trim.
Bindable(a) == a \in {"empty", "wild", "unspec", "good"}

\* The manager's advertiseAddr, once its listener is bound.
advertiseAddr(c) ==
    IF c.advertise # "empty" THEN c.advertise
    ELSE IF c.listen = "good" THEN "good" ELSE "empty"

\* The check that a peer makes on the addresses it is told.  It does not trim, and
\* SplitHostPort finds too many colons if the bracket is not the first character.
isInvalidPeerAddr(a) == a \notin HostAndPort \ {"padded6"} \/ a = "wild"

-----------------------------------------------------------------------------
(* main.                                                                    *)

Step(p, from, to) ==
    /\ stage[p] = from
    /\ stage' = [stage EXCEPT ![p] = to]
    /\ UNCHANGED <<cfg, faults>>

\* Load, overrides and Validate; a bad configuration ends the process.
Start(p) ==
    /\ Step(p, "down", IF Validate(cfg[p]) THEN "load" ELSE "down")
    /\ UNCHANGED <<mem, key, pub, lock, used, ran>>

\* Fault: the public key has to be there as well.
LoadBoth(p) ==
    /\ CASE key = "absent" -> Step(p, "load", "generate") /\ UNCHANGED mem
         [] key # "absent" /\ (key = "torn" \/ pub # key) -> Step(p, "load", "failed") /\ UNCHANGED mem
         [] OTHER -> Step(p, "load", "store") /\ mem' = [mem EXCEPT ![p] = key]
    /\ UNCHANGED <<key, pub, lock, used, ran>>

\* identity.Load looks at the private key only.
Load(p) ==
    /\ CASE key = "absent" -> Step(p, "load", "generate") /\ UNCHANGED mem
         [] key = "torn" -> Step(p, "load", "failed") /\ UNCHANGED mem
         [] OTHER -> Step(p, "load", "store") /\ mem' = [mem EXCEPT ![p] = key]
    /\ UNCHANGED <<key, pub, lock, used, ran>>

Generate(p) ==
    /\ Step(p, "generate", "openKey")
    /\ \E k \in Keys \ used : mem' = [mem EXCEPT ![p] = k] /\ used' = used \cup {k}
    /\ UNCHANGED <<key, pub, lock, ran>>

\* WriteFile truncates the file, then writes it.
OpenKey(p) ==
    /\ Step(p, "openKey", "writeKey") /\ key' = "torn"
    /\ UNCHANGED <<mem, pub, lock, used, ran>>

WriteKey(p) ==
    /\ Step(p, "writeKey", "openPub") /\ key' = mem[p]
    /\ UNCHANGED <<mem, pub, lock, used, ran>>

OpenPub(p) ==
    /\ Step(p, "openPub", "writePub") /\ pub' = "torn"
    /\ UNCHANGED <<mem, key, lock, used, ran>>

WritePub(p) ==
    /\ Step(p, "writePub", "store") /\ pub' = mem[p]
    /\ UNCHANGED <<mem, key, lock, used, ran>>

Writing == {"openKey", "writeKey", "openPub", "writePub"}

\* Fault: errors of WriteFile are ignored.
WriteErrorIgnored(p) ==
    /\ stage[p] \in Writing /\ stage' = [stage EXCEPT ![p] = "store"]
    /\ faults < MaxFaults /\ faults' = faults + 1
    /\ UNCHANGED <<cfg, mem, key, pub, lock, used, ran>>

\* MkdirAll or WriteFile fails, and so does generate.
WriteError(p) ==
    /\ stage[p] \in Writing /\ stage' = [stage EXCEPT ![p] = "failed"]
    /\ faults < MaxFaults /\ faults' = faults + 1
    /\ UNCHANGED <<cfg, mem, key, pub, lock, used, ran>>

\* bbolt waits for the lock on the file; then the hub and the transport start.
OpenStore(p) ==
    /\ lock = NoProc /\ lock' = p
    /\ Step(p, "store", "serve")
    /\ ran' = ran \cup {mem[p]}
    /\ UNCHANGED <<mem, key, pub, used>>

\* The SSH server binds its address, or the process ends.
Serve(p) ==
    /\ IF Bindable(cfg[p].ssh)
       THEN Step(p, "serve", "running") /\ UNCHANGED lock
       ELSE Step(p, "serve", "unbound") /\ lock' = NoProc
    /\ UNCHANGED <<mem, key, pub, used, ran>>

\* The process has ended and may be started again: after an error, a shutdown.
Exit(p) ==
    /\ \E s \in {"failed", "unbound", "running"} : Step(p, s, "down")
    /\ mem' = [mem EXCEPT ![p] = NoKey]
    /\ lock' = (IF lock = p THEN NoProc ELSE lock)
    /\ UNCHANGED <<key, pub, used, ran>>

\* The process is killed.
Crash(p) ==
    /\ stage[p] # "down" /\ stage' = [stage EXCEPT ![p] = "down"]
    /\ faults < MaxFaults /\ faults' = faults + 1
    /\ mem' = [mem EXCEPT ![p] = NoKey]
    /\ lock' = (IF lock = p THEN NoProc ELSE lock)
    /\ UNCHANGED <<cfg, key, pub, used, ran>>

Boot(p) ==
    \/ Start(p) \/ Load(p) \/ Generate(p) \/ OpenKey(p) \/ WriteKey(p)
    \/ OpenPub(p) \/ WritePub(p) \/ OpenStore(p) \/ Serve(p)

Next == \E p \in Procs : Boot(p) \/ WriteError(p) \/ Exit(p) \/ Crash(p)

Spec == Init /\ [][Next]_vars

\* A process goes on, and one that has ended is started again.
FairSpec == Spec /\ \A p \in Procs : WF_vars(Boot(p)) /\ WF_vars(stage[p] # "running" /\ Exit(p))

-----------------------------------------------------------------------------
(* Properties.                                                              *)

\* A node keeps its identity: all processes that got to the network had the same keypair, however
\* often and wherever processes were killed or writes failed (identity.Load, generate).
IdentityKept == Cardinality(ran) <= 1

\* A node that serves advertises no address that its peers would refuse, and so
\* does not lose its place in their tables because of a configuration that has
\* passed Validate (validatePeerAddr, advertiseAddr, isInvalidPeerAddr), with one
\* exception: of the three only validatePeerAddr trims, and a bracketed IPv6
\* address after white space passes it, is advertised as it stands and refused.
AdvertisedAccepted ==
    \A p \in Procs : stage[p] = "running" =>
        (isInvalidPeerAddr(advertiseAddr(cfg[p])) => advertiseAddr(cfg[p]) \in {"empty", "padded6"})

\* With a configuration that is valid and an address that can be bound, a node
\* that is started again after every failure gets to serve, unless a failure in
\* the middle of writing node.key has left a torn file: no other crash leaves
\* something on disk that keeps it down (identity.Load, generate, boltstore.Open).
StartsUnlessTorn ==
    \A p \in Procs :
        (stage[p] = "down" /\ Validate(cfg[p]) /\ Bindable(cfg[p].ssh))
            ~> (stage[p] = "running" \/ (stage[p] = "down" /\ key = "torn"))
=============================================================================
