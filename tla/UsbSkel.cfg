SPECIFICATION FairSpec
CONSTANTS
    Threads = {t1, t2}
    Core = core_thread
    NoOwner = no_owner
    WRITES_IN_FLIGHT = 1
    BULK_IN_SIZE = 2
    Counts = {1, 3}
    DeviceStatus = {"ok", "other"}
INVARIANTS
    NoUseAfterFree
    NoLeak
    NoIOWhenStopped
    SlotsConserved
    ReadUrbOwned
PROPERTIES
    NoUnreadDataDropped
    DisconnectCompletes
