\* Two changes of one record.
SPECIFICATION Spec
CONSTANTS
    Self = "self"  Ids = {"self", "p"}
    Addrs = {"a1", "a2"}  Boot = "boot"  Wildcard = "wildcard"  NoAddr = "noaddr"
    NoKey = "nokey"  NoRec = NoRec
    Hellos <- FewHellos  Exchanges <- FewExchanges  Seeds <- NoSeeds
    StoreFails = FALSE  MaxPeers = 0  MaxInt = 3  MaxUint = 7  MaxBackoff = 2  MaxDials = 1
    MaxClock = 1  MaxUpdates = 2
INVARIANTS StateSurvives
CHECK_DEADLOCK FALSE
