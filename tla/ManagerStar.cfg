\* Three nodes with room for one peer each; one of them lies in its hellos,
\* discovery holds a stale address, and the network fails once.
SPECIFICATION Spec
CONSTANTS
    a = a  b = b  c = c  k1 = k1  k2 = k2  k3 = k3  None = None
    Nodes = {a, b, c}
    Conns = {k1, k2}
    Bootstrap <- OneWay
    Records <- Moved
    Liars = {c}  Stoppable = {}
    MaxPeers = 1  MaxBackoff = 1  MaxDials = 2  MaxFaults = 1
SYMMETRY ConnSymmetry
INVARIANTS TypeOK MapMatchesConnections PeersAuthenticated WithinCapacity
CHECK_DEADLOCK FALSE
