\* Frames and handlers take time; the network goes away, the acceptor stops or
\* its handlers hang.
SPECIFICATION FairSpec
CONSTANTS
    HandshakeTimeout = 4  DefaultTimeouts <- Defaults  TimeoutOverrides <- Shortest
    Delay = 1  HandlerMax = 1  WireCap = 1  SendCap = 1
    Faulty = {"acceptor"}  MaxFaults = 1
INVARIANTS HealthyStaysUp DeadNoticed
PROPERTIES LoopsEnd
