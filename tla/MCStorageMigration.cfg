CONSTANTS
    Wallets = {w1, w2}
    Native = Native
    Legacy = Legacy
    MaxCrashes = 1
    MaxFailures = 2
    MaxChanges = 1
SPECIFICATION MigrationFairSpec
INVARIANTS
    HalfCopyNeverLive
PROPERTIES
    FreshImportIsNewest
    ImplementsPromise
    EventuallyDone
CHECK_DEADLOCK FALSE
