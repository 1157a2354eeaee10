\* Two clients, one peer, a queue of one.
SPECIFICATION FairDownSpec
CONSTANTS
    Clients = {c1, c2}  Receivers = {r1}  QueueCap = 1
INVARIANTS DrainComplete
PROPERTIES ShutdownCompletes HubCallsReturn
CHECK_DEADLOCK FALSE
