SPECIFICATION Spec
CONSTANTS
    NumSNI = 1
    AutoReload = TRUE
    MaxVersion = 2
    MaxHups = 1
    MaxEvents = 2
INVARIANTS
    OffersMatchingPair
    WatchCurrent
PROPERTIES
    WatchApplies
    HupApplies
