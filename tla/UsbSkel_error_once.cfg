SPECIFICATION Spec
CONSTANTS
    Threads = {t1, t2}
    Core = core_thread
    NoOwner = no_owner
    WRITES_IN_FLIGHT = 1
    BULK_IN_SIZE = 1
    Counts = {1, 2}
    DeviceStatus = {"ok", "other"}
SYMMETRY ThreadSymmetry
INVARIANT ErrorReportedOnce
