SPECIFICATION FairLifecycle
CONSTANTS
    None = none
    monitor = monitor
    Callers = {d1, d2, monitor}
    Drains = {d1, d2}
    Timers = {timer1, timer2}
    Keys = {k}
    MaxBatchRows = 1
    ReplayBatchRows = 2
    MaxRows = 4
    MaxFaults = 0
    SpoolLimit = 1
    MaxChanges = 2
    MaxTroubles = 1
CONSTRAINT NoStrays
PROPERTY ComesBackWhole
CHECK_DEADLOCK FALSE
