SPECIFICATION MCSpec
CONSTANTS
  Nothing = Nothing
  Raptor = Raptor
  Or = Or
  R = R
  O = O
  K1 = K1
  K2 = K2
  K3 = K3
  K4 = K4
  ClId = ClId
  Amended = Amended
  Acme = Acme
  AcmeX = AcmeX
  ACME = ACME
  Ac = Ac
  Starts <- MCStarts
  Upper <- MCUpper
  Monikers = {Nothing, Ac, ACME}
  Symbols = {Nothing, Cat}
  Searches = {Nothing, K2, ClId}
  MaxPresses = 3
  Cat = Cat
  QtyTol = 0
  Configs <- MCConfigs
  Books <- MCBooks
  Changes <- MCChanges
  MaxPending = 1
  MaxChanges = 2
  MaxFaults = 1
INVARIANTS MirrorSettles TablesSound PageIsOneFilter
PROPERTIES NeverBlinks Converges LinkedWhileParentLives
CHECK_DEADLOCK FALSE
