\* Two peers, a stored record, three changes of the table.
SPECIFICATION Spec
CONSTANTS
    Self = "self"  Ids = {"self", "p", "q"}
    Addrs = {"a1", "a2"}  Boot = "boot"  Wildcard = "wildcard"  NoAddr = "noaddr"
    NoKey = "nokey"  NoRec = NoRec
    Hellos <- SomeHellos  Exchanges <- SomeExchanges  Seeds <- SomeSeeds
    StoreFails = TRUE  MaxPeers = 1  MaxInt = 3  MaxUint = 7  MaxBackoff = 2  MaxDials = 1
    MaxClock = 3  MaxUpdates = 3
INVARIANTS TypeOK ExchangeAccepted LostRaceCountsOnce
PROPERTIES RetriesSpaced
CHECK_DEADLOCK FALSE
