SPECIFICATION Spec
CONSTANTS
    Items = {a, b}
    List = list
    Fields = {list}
    Values <- MCValues
    Defaults <- MCDefaults
    Retired = retired
    Replacement <- MCReplacement
    Slots = {s1, s2}
    First = s1
    None = none
    MaxChanges = 3
    MaxFailures = 1
INVARIANTS
    ShownAsAsked
    StoredAsAsked
PROPERTIES
    ChangesReachTheFile
CHECK_DEADLOCK FALSE
