SPECIFICATION LiveSpec
CONSTANTS
    None = none
    Callers = {drain}
    Timers = {timer1, timer2}
    Keys = {k}
    MaxBatchRows = 1
    ReplayBatchRows = 3
    MaxRows = 3
    MaxFaults = 1
CHECK_DEADLOCK FALSE
INVARIANT RowsSafe
PROPERTY NotLeftBuffered
