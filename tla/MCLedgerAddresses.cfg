SPECIFICATION Spec
CONSTANTS
    ks1 = ks1
    ks2 = ks2
    Keystores <- MCKeystores
    Chains = {"BTC"}
    BTC = "BTC"
    Modes <- MCModes
    Offered <- MCOffered
    Accounts = {1}
    None = None
    Slots = {1, 2}
    MaxChanges = 2
    MaxFailures = 1
    MaxQuits = 1
INVARIANTS
    OnePerDerivation
    KeptAsAsked
    NoOrphans
