\* A triangle with a tail; connections break, ids expire and limiters refuse.
SPECIFICATION FairSpec
CONSTANTS
    n1 = n1  n2 = n2  n3 = n3  n4 = n4  n5 = n5  m1 = m1
    Nodes = {n1, n2, n3, n4, n5}  Links <- TailLinks  Within <- TailWithin
    Msgs = {m1}  Author <- OneAuthor
    MaxHops = 4  Fanout = 2  QueueCap = 1
    Throttles = TRUE  Expires = TRUE  MaxBreaks = 1
INVARIANTS TypeOK Horizon
PROPERTIES ImplementsDissemination TrafficEnds EveryoneShown
CHECK_DEADLOCK FALSE
