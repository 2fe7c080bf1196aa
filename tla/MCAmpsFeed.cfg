SPECIFICATION FeedSpec
CONSTANTS
    Nothing = Nothing
    K = K
    C1 = C1
    C2 = C2
    Log <- MCLog
    BookmarkEnv = {"now", "most_recent", "2|1|"}
    Literal <- MCLiteral
    MaxPending = 2
    MaxRestarts = 1
    MaxFailures = 1
INVARIANTS ReleasedIsKept NoHoles NeverSilent
PROPERTIES Delivered
CHECK_DEADLOCK FALSE
