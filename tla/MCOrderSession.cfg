SPECIFICATION Spec
CONSTANTS
    None = none
    ClOrdIDs = {1, 2, 3}
    ExecIDs = {1, 2, 3, 4}
    MaxQty = 2
    MaxPending = 3
    MaxRequests = 2
    MaxWire = 2
    Messages = {}
    RejectsCarryStatus = TRUE
    Unsolicited = {"CANCEL", "REPLACE"}
CHECK_DEADLOCK FALSE
INVARIANT CacheFollows
