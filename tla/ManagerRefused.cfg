\* Two nodes dial a third that has room for one.
SPECIFICATION FairSpec
CONSTANTS
    a = a  b = b  c = c  k1 = k1  k2 = k2  k3 = k3  None = None
    Nodes = {a, b, c}
    Conns = {k1, k2}
    Bootstrap <- Star
    Records <- NoRecords
    Liars = {}  Stoppable = {}
    MaxPeers = 1  MaxBackoff = 1  MaxDials = 1  MaxFaults = 0
PROPERTIES RefusedDialsWait
CHECK_DEADLOCK FALSE
