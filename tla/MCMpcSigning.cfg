CONSTANTS
    Sessions = {s1, s2, s3}
    Vaults = {v1, v2}
    NoEntry = NoEntry
SPECIFICATION FairSigning
INVARIANTS
    OneSessionPerVault
PROPERTIES
    AbortReachesEverySession
    VaultIsReleased
CHECK_DEADLOCK FALSE
