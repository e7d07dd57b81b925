SPECIFICATION FairSpec
CONSTANTS
    Tasks = {t1, t2, t3}
    Core = core_thread
    NoOwner = no_owner
    IN_SIZE = 3
    OUT_SIZE = 2
    Counts = {0, 1, 3}
    Numbers = 4
INVARIANTS
    FreedOnlyUnused
    StreamIntact
PROPERTY DisconnectEnds
