\* One engine: keys, relaying and broadcasting over two connections that come and
\* go, with the clock, both cleanups and a bucket of one token.
SPECIFICATION Spec
CONSTANTS
    n0 = n0  n1 = n1  n2 = n2
    k0 = k0  k1 = k1  k2 = k2
    c1 = c1  c2 = c2
    m1 = m1  own = own
    NoKey = NoKey  NoEnv = NoEnv
    Self = n0  SelfKey = k0
    NodeIds = {n0, n1, n2}
    Keys = {k0, k1, k2}
    NodeIDOf <- MCNodeIDOf
    Conns = {c1, c2}
    PeerOf <- NodePeerOf
    MsgIds = {m1, own}
    OwnIds = {own}
    Received <- NodeReceived
    MaxPeers = 0  Fanout = 1  MaxHops = 3  MaxUint = 4
    TTL = 1  TokenCost = 1  Burst = 1  LimiterTTL = 1  MaxClock = 2
INVARIANTS TypeOK SeenOnlyAccepted Authentic ForwardedFaithfully
PROPERTIES AcceptOncePerTTL BudgetNeverGrows TrustNeverWeakened
