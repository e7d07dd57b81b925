SPECIFICATION FairSpec
CONSTANT Drivers = {"thread1", "thread2", "signal2", "timer1", "timer2",
                    "tasklet1", "tasklet2", "tasklet3", "wait2"}
INVARIANTS
    LeftBehind
    DeadTaskWasKilled
PROPERTIES
    ThreadEnds
    ModuleCallsReturn
