SPECIFICATION MCSpec
CONSTANTS
    Nothing = Nothing
    Half = Half
    Corrupt = Corrupt
    A = A
    B = B
    Part = Part
    Marker = Marker
    Key = Key
    Configs <- MCConfigs
    Trees <- MCTrees
    KeyOrder <- MCKeys
    SymbolOf <- MCSymbols
    TradingDays = {1, 3}
    Universe <- MCUniverse
    Versions = {2}
    Requests <- MCRequests
    Intervals = {"1m", "4m"}
    ChartTypes = {"candlestick", "normalized"}
    PageKeys = 2
    MaxJobs = 1
    MaxFaults = 1
    Callers = {"console", "desk"}
    BarsOf <- MCBarsOf
    WidthOf <- MCWidths
    Typed <- MCTyped
    Presets = {0, 1}
    DayLength = 10
    DayShift = 2
    MaxEvents = 2
    MaxCalls = 1
INVARIANTS JobsDeliver OkIsWhole CacheFresh ShownIsSelected
CHECK_DEADLOCK FALSE
