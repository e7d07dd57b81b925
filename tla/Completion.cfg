SPECIFICATION FairSpec
CONSTANTS
    Readers = {r1, r2, r3}
    MaxReads = 4
INVARIANTS
    ReportsAreReads
    ReadNotLost
PROPERTY EventsArrive
