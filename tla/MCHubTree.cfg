SPECIFICATION MCSpec
CONSTANTS
    Nothing = Nothing
    A = A
    B = B
    C = C
    K1 = K1
    K2 = K2
    NewId = NewId
    AmendedId = AmendedId
    OrderId = OrderId
    BadId = BadId
    Configs <- MCConfigs
    Tapes <- MCTapes
    X = X
    Y = Y
    AccountOf <- MCAccounts
    KeyRank <- MCRanks
    Searches = {NewId}
    PageSize = 2
    MaxEvents = 3
    QtyTol = 1
    MaxFailures = 1
INVARIANTS RootIsTop TapesDecide LevelsAgree PagesShowAll ChainIsOfSelected
PROPERTIES LinkedStays
CHECK_DEADLOCK FALSE
