CONSTANTS
    Ids = {w1, w2, w3}
    Names = {n1, n2}
    None = None
    Slots = {s1, s2}
    MaxCalls = 3
    MaxQuits = 1
SPECIFICATION Spec
SYMMETRY KeystoreSymmetry
INVARIANTS
    ListsWellFormed
    CurrentWalletInList
    DiskAgreesUnlessDisturbed
    ForgottenOnlyByRemoval
CHECK_DEADLOCK FALSE
