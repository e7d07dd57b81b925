SPECIFICATION FairSpec
CONSTANTS
    Devices = {d1, d2}
    MaxUsers = 2
    NoDevice = no_device
INVARIANTS
    PollOnlyForUsers
    PollContinues
    MajorTracked
PROPERTY CloseReturns
