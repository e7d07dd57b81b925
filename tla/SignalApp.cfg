SPECIFICATION AppFairSpec
CONSTANTS
    Apps = {a1, a2, a3}
    NoTask = no_task
INVARIANTS
    TaskIsAlive
    LoneProgram
PROPERTY InterruptEnds
