SPECIFICATION MCSpec
CONSTANTS
  Dh1 = Dh1
  Dh2 = Dh2
  LikeDh2 = LikeDh2
  A = A
  B = B
  Orders = Orders
  Ids = Ids
  Configs <- MCConfigs
  Suffix <- MCSuffix
  Hubs <- MCHubs
  Exports <- MCExports
  Budget <- MCBudget
  X = X
  Y = Y
  LowerY = LowerY
  O1 = O1
  O2 = O2
  Null = Null
  Universes <- MCUniverses
  UpperCase <- MCUpper
  OrderStates <- MCOrderStates
  DefaultPrice = 3
  MinPrice = 1
  MaxPrice = 4
INVARIANTS GlobalsAccounted PanelAnswersPress QuotesFollow
PROPERTIES Recovers
