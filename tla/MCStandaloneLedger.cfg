CONSTANTS
    DeviceChains = {c1, c2}
    Paths = {p1, p2}
    Default = p1
    Undefined = Undefined
    Loops = {s1, s2}
    MaxTries = 3
    MaxStarts = 5
SPECIFICATION FairLedgerSpec
INVARIANTS
    FoundIsSelected
    AddressOfConnected
PROPERTIES
    DetectionEnds
CHECK_DEADLOCK FALSE
