SPECIFICATION MCSpec
CONSTANTS
    None = None
    Dark = Dark
    Console = Console
    Venues = {Dark}
    L1 = L1
    Loops = {L1}
    Pastes <- MCPastes
    NewQtys = {1}
    NewTifs = {"IOC"}
    NewPrices = {0, 1}
    MaxOrders = 3
    SeedBooks <- MCSeedBooks
    MaxEvents = 3
    MaxBaskets = 3
    MaxCalls = 3
    MaxRounds = 1
    Quotes <- MCQuotes
INVARIANTS QuantitiesAddUp TablesAgree OneShot
PROPERTIES SplitKeepsTotals DoneIsDone RoutedIsAnswered ActsOnNamed
CHECK_DEADLOCK FALSE
