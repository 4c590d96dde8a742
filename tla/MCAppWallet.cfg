CONSTANTS
    Vaults = {v1, v2}
    Encrypted = {v1}
    Keystores = {k1}
    None = None
    Slots = {s1, s2}
    Stores = {{}, {v1, v2}}
    MaxCalls = 3
    MaxSaves = 2
SPECIFICATION FairSpec
INVARIANTS
    AddressesUnlessRaced
    AppMirrorsService
    OneUnlockedUnlessMissed
    SavedFollowsMode
PROPERTIES
    ActiveWasOpened
    TransitionEnds
CHECK_DEADLOCK FALSE
