\* One node dials another; two failures of the network.
SPECIFICATION FairSpec
CONSTANTS
    a = a  b = b  c = c  k1 = k1  k2 = k2  k3 = k3  None = None
    Nodes = {a, b}
    Conns = {k1, k2, k3}
    Bootstrap <- OneWay
    Records <- NoRecords
    Liars = {}  Stoppable = {a, b}
    MaxPeers = 0  MaxBackoff = 1  MaxDials = 1  MaxFaults = 2
PROPERTIES HalfOpenEnds Reconnects
CHECK_DEADLOCK FALSE
