SPECIFICATION Spec
CONSTANTS
    Orders = {0, 1}
    Type <- MCType
    Unit <- MCUnit
    Limit <- MCLimit
    Prices = {1, 2}
    Outputs = {1, 2}
    Size = 1
    User = user
    None = none
    MaxDetours = 1
PROPERTIES
    NotArmedAfterSigning
CHECK_DEADLOCK FALSE
