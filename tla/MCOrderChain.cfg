SPECIFICATION ChainSpec
CONSTANTS
    None = none
    C1 = C1
    C2 = C2
    C3 = C3
    C4 = C4
    E1 = E1
    E2 = E2
    ClOrdIDs = {C1, C2, C3, C4}
    ExecIDs = {E1, E2}
    MaxQty = 3
    MaxPending = 2
    Messages <- MCMessages
PROPERTY HistoryStands
