\* One process at a time, killed or failing up to three times, for each of many
\* configurations.
SPECIFICATION FairSpec
CONSTANTS
    Procs = {p1}  Keys = {k1, k2, k3, k4}  Configs <- ManyConfigs  MaxFaults = 3
INVARIANTS IdentityKept AdvertisedAccepted
PROPERTIES StartsUnlessTorn
