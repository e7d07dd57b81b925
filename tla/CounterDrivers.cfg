SPECIFICATION FairSpec
CONSTANTS
    Outcomes = {"ok", "null", "err"}
    Modulus = 4
    MaxWrites = 3
INVARIANTS
    LockProtects
    ReadUndisturbed
    BitFollowsCount
    ExitLeavesNothing
    FaultsExplained
PROPERTIES
    NoLostIncrement
    ExitCompletes
