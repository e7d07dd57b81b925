SPECIFICATION BlkFairSpec
CONSTANTS
    Tasks = {t1, t2}
    Softirq = softirq
    Nobody = nobody
    Zero <- NoData
    Values <- Contents
    Fresh <- Garbage
    nsectors = 3
    hardsect_size = 512
    KERNEL_SECTOR_SIZE = 512
    Tags = {g1, g2}
    Segmentations <- Segments
    Payloads = {1}
    MaxRequests = 2
    Content <- Numbers
INVARIANTS
    TimerOnlyWhenIdle
    NoStaleMedia
    WritesLand
    ReadsReturn
PROPERTIES
    EraseOnlyUnused
    OpenReturns
    IdleDiskChanges
