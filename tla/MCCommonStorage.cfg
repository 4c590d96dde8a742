SPECIFICATION Spec
CONSTANTS
    Fields = {theme, node}
    Values = {plain, retired, replaced}
    Defaults <- MCDefaults
    Retired = retired
    Replacement = replaced
    Slots = {s1, s2}
    First = s1
    None = none
    MaxCalls = 3
    MaxFailures = 1
    MaxCrashes = 1
INVARIANTS
    AckedIsKept
    CacheIsFile
PROPERTIES
    ImplementsRegisters
CHECK_DEADLOCK FALSE
